---- MODULE Spec2Model ----
(***************************************************************************)
(* ADIN2111 driver: the TX ring / TX worker / RX loop packet pipeline of   *)
(* the netdev variants, modelled as state machines.                        *)
(*                                                                         *)
(*   SpecTx     test-build/adin2111_netdev_correct.c   (TX ring + worker)  *)
(*   SpecDirect adin2111_netdev.c, adin2111_netdev_mvp.c (transmit in      *)
(*              ndo_start_xmit)                                            *)
(*   SpecFixed  adin2111_netdev_fixed.c (work item per frame, tasklet)     *)
(***************************************************************************)
EXTENDS Integers, Naturals, Sequences, FiniteSets, TLC

(***************************************************************************)
(* Program constants                                                       *)
(***************************************************************************)
ADIN2111_MAX_FRAME_SIZE == 1518
ADIN2111_FRAME_HEADER_LEN == 2
TX_RING_SIZE == 16
\* unsigned int is 32 bits wide.  A u32 value v is held in its two's-complement
\* reading (v for v < 2^31, v - 2^32 otherwise), so 2^32 - 1 is -1 and the wrap
\* of 2^32 - 1 to 0 is the step from -1 to 0.
INT_MAX == 2147483647
INT_MIN == -2147483647 - 1

(***************************************************************************)
(* Bounds of the model                                                     *)
(***************************************************************************)
\* frames the stack gets accepted over one run
MaxFrames == 16
\* oversize frames the stack submits over one run
MaxOversize == 1
\* transport failures the bus injects over one run
MaxFaults == 1
\* adin2111_netdev_mvp.c: transport transactions after which the device
\* no longer reports a full TX FIFO
MaxBusyOps == 6
\* watchdog expiries over one run
MaxTimeouts == 1
\* frames the wire delivers to the port over one run
MaxRxFrames == 3
\* skb allocation failures on the receive side over one run
MaxRxNomem == 1
\* adin2111_tx_work items queued on system_wq at one time
MaxWorkItems == 2

\* length of every well-formed frame the stack submits
FrameLen == 64
\* lengths the stack hands to ndo_start_xmit
\* adin2111_hybrid.c: CONFIG2 and its bits
ADIN1110_CONFIG2 == 6
ADIN2111_P2_FWD_UNK2HOST == 4096
ADIN2111_PORT_CUT_THRU_EN == 2048
ADIN1110_FWD_UNK2HOST == 4
\* adin2111_regmap_config.max_register
max_register == 8191
\* ARRAY_SIZE(mock->registers)
MOCK_REGISTERS == 8192
\* 0xDEADBEEF as a signed 32-bit number
INVALID_REGISTER_MARKER == -559038737
EIO == 5
\* calls of the SPI mock in one run
MaxTransactions == 3

\* hw/net/adin2111.h of the QEMU device: registers and bits
ADIN2111_REG_COUNT == 1024
ADIN2111_REG_CHIP_ID == 0
ADIN2111_REG_SCRATCH == 1
ADIN2111_REG_RESET_CTL == 2
ADIN2111_REG_DEVICE_STATUS == 3
ADIN2111_REG_INT_STATUS == 4
ADIN2111_REG_INT_MASK == 5
ADIN2111_REG_SWITCH_CONFIG == 64
ADIN2111_REG_PORT1_STATUS == 129
ADIN2111_REG_PORT2_STATUS == 161
\* 0x80000000 as a signed 32-bit number
ADIN2111_SPI_READ == INT_MIN
ADIN2111_SPI_WRITE == 0
ADIN2111_RESET_SOFT == 1
ADIN2111_STATUS_READY == 1
ADIN2111_STATUS_LINK1_UP == 2
ADIN2111_STATUS_LINK2_UP == 4
ADIN2111_INT_READY == 1
ADIN2111_INT_RX1 == 8
ADIN2111_INT_RX2 == 16
ADIN2111_SWITCH_CUT_THROUGH == 1
ADIN2111_SWITCH_ENABLE == 16
ADIN2111_RESET_TIME_MS == 50
\* the chip id the device reports
CHIP_ID == 8465
\* the hybrid QEMU device: regs[256], STATUS1 and its RX-ready bits
HYBRID_REG_COUNT == 256
ADIN1110_STATUS1 == 9
ADIN1110_RX_RDY == 16
ADIN2111_P2_RX_RDY == 131072
\* adin2111_hybrid.c: the command bits of the SPI header
ADIN1110_CD == 128
ADIN1110_WRITE == 32
\* the step of qtest_clock_step in ms, and the latest time followed
ClockStep == 20
MaxClock == 60

XmitLens == {FrameLen, ADIN2111_MAX_FRAME_SIZE + 1}
\* values the TX_SPACE register reports
TxSpaceValues == {FrameLen + ADIN2111_FRAME_HEADER_LEN - 1,
                  FrameLen + ADIN2111_FRAME_HEADER_LEN}

NULL == 0
\* RX_MAX_FRAME_SIZE of adin2111_netdev_kernel66.c
RX_MAX_FRAME_SIZE == 1536
\* values the frame size register presents: below the header length, an
\* ordinary frame, the largest frame with its header, just above it, above
\* RX_MAX_FRAME_SIZE, and an ordinary size with a bit set above bit 15
RxSizes == {1, FrameLen + ADIN2111_FRAME_HEADER_LEN,
            ADIN2111_MAX_FRAME_SIZE + ADIN2111_FRAME_HEADER_LEN,
            ADIN2111_MAX_FRAME_SIZE + ADIN2111_FRAME_HEADER_LEN + 1,
            RX_MAX_FRAME_SIZE + 1,
            65536 + FrameLen + ADIN2111_FRAME_HEADER_LEN}

VARIABLES
    \* struct adin2111_port_ext
    tx_ring, tx_head, tx_tail, rx_thread_running,
    \* struct net_device: __QUEUE_STATE_DRV_XOFF, carrier, __LINK_STATE_START
    queue_stopped, carrier_ok, up,
    \* work_struct tx_work: pending bit; the running worker: position, tail,
    \* and the skb pointer a load of the next entry gives when it is carried
    \* out ahead of the load of tx_head (nothing orders the two)
    tx_work_pending, wpc, w_tail, w_skb,
    \* delayed_work link_work: pending bit
    link_work_pending,
    \* ndo_start_xmit in progress: position, outcome of its last ring check
    xpc, x_stop,
    \* ndo_stop: "idle", "cancel" while it waits for the work items, "closed"
    \* once it has returned (a run covers one open ... stop life cycle)
    spc,
    \* priv->lock owner
    lock,
    \* port->stats
    stats,
    \* the device: the last frame whose data reached the TX FIFO and how
    \* many did; the link bit of STATUS0
    tx_fifo_last, tx_fifo_cnt, link_bit,
    \* the transport: transactions issued from ndo_start_xmit
    xmit_bus_ops,
    \* the environment: frames accepted so far, faults, watchdog expiries,
    \* skbs freed
    next_id, faults, timeouts, freed,
    \* backpressure round trip: Busy seen, dequeues and wakes since then
    busy_seen, deq_since_busy, wake_since_busy,
    \* which source variant the run is of
    variant,
    \* adin2111_netdev_fixed.c: the queued adin2111_tx_work items (by skb),
    \* port->tx_queue, the tasklet's pending bit and position
    works, tx_queue, tasklet_pending, tpc,
    \* the port number; the device's receive side: the RX-ready bits of
    \* STATUS1 (by port), the frame size register, the frame in the RX FIFO
    \* (0: none), frames received from the wire so far
    port_num, rx_rdy, rx_fsize, rx_frame, next_rx,
    \* the RX loop's position; the network stack: the last frame delivered
    \* to it and how many were
    rpc, sink_last, sink_cnt,
    \* buffer allocations that failed on the receive side
    rx_nomem,
    \* the register access layer: the device's registers as the regmap
    \* reaches them, the caller's *val, priv->forwarding_en
    dev_regs, val_out, forwarding_en,
    \* struct spi_mock_state: registers, transaction_count, last_error
    registers, transaction_count, last_error,
    \* the last register call: its function, register and return value
    reg_call,
    \* ADIN2111State / ADIN2111HybridState of the QEMU device models
    regs, reset_active, reset_timer, cut_through_mode, switch_enabled,
    spi_cmd, spi_addr, spi_state, int_status, int_mask,
    hardware_forwarding_enabled,
    \* the level of the device's interrupt line
    irq,
    \* whether an access went beyond regs[]; QEMU_CLOCK_VIRTUAL in ms
    oob, clock,
    \* the SPI master: the transaction in progress, the last one completed,
    \* and the time a soft-reset write was last completed (-1: never)
    xfer, spi_done, reset_written,
    \* driver initialisation: the position of adin2111_probe, the return
    \* value of adin2111_hw_init and of the probe, jiffies, the deadline of
    \* the reset poll, priv->pdata with priv->switch_mode
    ppc, hw_ret, probe_ret, jiffies, timeout, pdata,
    \* the device: its registers (sets of the bits that are set), whether it
    \* is carrying out a soft reset; the configuration registers written
    \* since the reset, in order; whether a netdev is registered
    chip, in_reset, written, registered,
    \* the MAC learning table; the single-interface setting; the bucket
    \* jhash gives each address; the last table operations, in order; for
    \* each address the time since it was last learned, counted up to just
    \* past the age time (-1: never learned); what the last frame handler
    \* did; the clock steps taken
    mac_table, single_interface_mode, bucket_of, tbl_ops, age_sat, fwd_last,
    advances,
    \* the frame codec: a frame, the bytes its encoder wrote and what the
    \* decoder made of them
    codec,
    \* adin2111_hybrid.c: priv->tx_space, the driver's count of free TX buffer bytes
    priv_tx_space,
    \* the contexts that take priv->lock: for each its position, the MDIO operation it is in and the PHY index of adin2111_link_work
    task,
    \* priv->mii_bus is set
    mii_bus,
    \* priv->tx_pending of adin2111_atomic_fix.c
    tx_pending,
    \* the messages handed to spi_async whose completion has not run yet
    spi_msgs

ringvars == <<tx_ring, tx_head, tx_tail>>
devvars  == <<queue_stopped, carrier_ok, up>>
workvars == <<tx_work_pending, wpc, w_tail, w_skb>>
xmitvars == <<xpc, x_stop>>
fifovars == <<tx_fifo_last, tx_fifo_cnt>>
envvars  == <<next_id, faults, timeouts, freed>>
rtvars   == <<busy_seen, deq_since_busy, wake_since_busy>>
vars == <<tx_ring, tx_head, tx_tail, rx_thread_running, queue_stopped,
          carrier_ok, up, tx_work_pending, wpc, w_tail, w_skb, link_work_pending,
          xpc, x_stop, spc, lock, stats, tx_fifo_last, tx_fifo_cnt, link_bit,
          xmit_bus_ops, next_id, faults, timeouts, freed,
          busy_seen, deq_since_busy, wake_since_busy,
          variant, works, tx_queue, tasklet_pending, tpc,
          port_num, rx_rdy, rx_fsize, rx_frame, next_rx, rpc, sink_last,
          sink_cnt, rx_nomem,
          dev_regs, val_out, forwarding_en, registers, transaction_count,
          last_error, reg_call,
          regs, reset_active, reset_timer, cut_through_mode, switch_enabled,
          spi_cmd, spi_addr, spi_state, int_status, int_mask,
          hardware_forwarding_enabled, irq, oob, clock, xfer, spi_done,
          reset_written,
          ppc, hw_ret, probe_ret, jiffies, timeout, pdata, chip, in_reset,
          written, registered,
          mac_table, single_interface_mode, bucket_of, tbl_ops, age_sat,
          fwd_last, advances, codec,
          priv_tx_space,
          task,
          mii_bus,
          tx_pending,
          spi_msgs>>

\* what only the TX ring variant uses
ringonly == <<tx_ring, tx_head, tx_tail, rx_thread_running, carrier_ok,
              tx_work_pending, wpc, w_tail, w_skb, link_work_pending, xpc, x_stop,
              spc, lock, link_bit, timeouts, deq_since_busy, wake_since_busy>>
\* what the TX ring variant does not use
fxvars == <<works, tx_queue, tasklet_pending, tpc>>
\* what only the receive side uses
rxvars == <<port_num, rx_rdy, rx_fsize, rx_frame, next_rx, rpc, sink_last,
            sink_cnt, rx_nomem>>
\* what only the register access layer uses
regvars == <<dev_regs, val_out, forwarding_en, registers, transaction_count,
             last_error, reg_call>>
\* what no netdev operation changes
\* what only the QEMU device models use
qdevvars == <<regs, reset_active, reset_timer, cut_through_mode,
              switch_enabled, int_status, int_mask,
              hardware_forwarding_enabled, irq>>
qspivars == <<spi_cmd, spi_addr, spi_state>>
qvars == <<qdevvars, qspivars, oob, clock, xfer, spi_done, reset_written>>
\* what only the driver initialisation uses
initvars == <<ppc, hw_ret, probe_ret, jiffies, timeout, pdata, chip, in_reset,
              written, registered>>
\* what only the MAC learning table and the forwarding use
fwdvars == <<mac_table, single_interface_mode, bucket_of, tbl_ops, age_sat,
             fwd_last, advances, codec,
             priv_tx_space,
             task,
             mii_bus,
             tx_pending,
             spi_msgs>>
layervars == <<variant, regvars, qvars, initvars, fwdvars>>
others == <<layervars, fxvars, rxvars>>
FxUnused == works = {} /\ tx_queue = <<>> /\ tasklet_pending = FALSE
            /\ tpc = "idle"
\* no register call yet
NoCall == [fn |-> "none", reg |-> 0, ret |-> 0]
RegUnused == /\ dev_regs = <<>> /\ val_out = 0 /\ forwarding_en = FALSE
             /\ registers = <<>> /\ transaction_count = 0
             /\ last_error = "" /\ reg_call = NoCall
\* no SPI transaction in progress, none completed
NoXfer == [op |-> "none", addr |-> 0, val |-> 0, pos |-> 0, acc |-> 0,
           st0 |-> 0]
NoDone == [op |-> "none", addr |-> 0, val |-> 0, ret |-> 0]
QemuUnused == /\ regs = <<>> /\ reset_active = FALSE /\ reset_timer = -1
              /\ cut_through_mode = FALSE /\ switch_enabled = FALSE
              /\ spi_cmd = 0 /\ spi_addr = 0 /\ spi_state = "SPI_STATE_IDLE"
              /\ int_status = 0 /\ int_mask = 0 /\ irq = FALSE
              /\ hardware_forwarding_enabled = FALSE
              /\ oob = FALSE /\ clock = 0
              /\ xfer = NoXfer /\ spi_done = NoDone /\ reset_written = -1
NoPdata == [switch_mode |-> FALSE, cut_through |-> FALSE,
            crc_append |-> FALSE, port1_enabled |-> FALSE,
            port2_enabled |-> FALSE, tx_fcs_validation |-> FALSE]
ProbeUnused == /\ ppc = "none" /\ hw_ret = 0 /\ probe_ret = 0 /\ jiffies = 0
               /\ timeout = 0 /\ pdata = NoPdata /\ chip = <<>>
               /\ in_reset = FALSE /\ written = <<>> /\ registered = FALSE
NoCodec == [stage |-> "none"]
NoFwd == [from |-> "none", port |-> -1, unicast |-> FALSE, had |-> -1,
          targets |-> {}, ops |-> <<>>]
TablesUnused == /\ mac_table = <<>> /\ single_interface_mode = FALSE
                /\ bucket_of = <<>> /\ tbl_ops = <<>> /\ age_sat = <<>>
                /\ fwd_last = NoFwd /\ advances = 0 /\ codec = NoCodec
HybTxUnused == priv_tx_space = 0
LockUnused == task = <<>> /\ mii_bus = FALSE
AsyncUnused == tx_pending = 0 /\ spi_msgs = <<>>
FwdUnused == /\ TablesUnused
             /\ HybTxUnused
             /\ LockUnused
             /\ AsyncUnused
RxUnused == /\ port_num = 0 /\ rx_rdy = {} /\ rx_fsize = 0 /\ rx_frame = 0
            /\ next_rx = 1 /\ rpc = "check" /\ sink_last = 0 /\ sink_cnt = 0
            /\ rx_nomem = 0

(***************************************************************************)
(* linux/circ_buf.h                                                        *)
(***************************************************************************)
\* u32 arithmetic on the two's-complement reading
U32Inc(a) == IF a = INT_MAX THEN INT_MIN ELSE a + 1
\* (a - b) mod 2^32 for indices less than 2^31 apart
U32Dist(a, b) == a - b

\* ((head) - (tail)) & ((size) - 1), size a power of two
CIRC_CNT(head, tail, size) == U32Dist(head, tail) % size
CIRC_SPACE(head, tail, size) == CIRC_CNT(tail, U32Inc(head), size)

Slot(i) == i % TX_RING_SIZE

ZeroStats == [tx_packets |-> 0, tx_bytes |-> 0, tx_errors |-> 0,
              tx_dropped |-> 0, rx_packets |-> 0, rx_bytes |-> 0,
              rx_errors |-> 0, rx_dropped |-> 0]

Bump(field) == [stats EXCEPT ![field] = @ + 1]

(***************************************************************************)
(* Kernel primitives used by the handlers                                  *)
(***************************************************************************)
\* a transport transaction either succeeds or, within the fault budget, fails
CanFail(ok) == ok \/ faults < MaxFaults
Faulted(ok) == IF ok THEN faults ELSE faults + 1

\* netif_wake_queue and a dequeue as seen by the backpressure round trip
WakeSeen == IF busy_seen THEN wake_since_busy + 1 ELSE wake_since_busy
DeqSeen  == IF busy_seen THEN deq_since_busy + 1 ELSE deq_since_busy

(***************************************************************************)
(* adin2111_create_netdev_correct: the state after construction            *)
(***************************************************************************)
InitTx ==
    /\ tx_ring = [i \in 0..(TX_RING_SIZE - 1) |-> NULL]
    /\ tx_head = 0
    /\ tx_tail = 0
    /\ rx_thread_running = FALSE
    /\ queue_stopped = TRUE
    /\ carrier_ok = TRUE
    /\ up = FALSE
    /\ tx_work_pending = FALSE
    /\ wpc = "idle"
    /\ w_tail = 0
    /\ w_skb = NULL
    /\ link_work_pending = FALSE
    /\ xpc = "idle"
    /\ x_stop = FALSE
    /\ spc = "idle"
    /\ lock = "free"
    /\ stats = ZeroStats
    /\ tx_fifo_last = 0
    /\ tx_fifo_cnt = 0
    /\ link_bit \in BOOLEAN
    /\ xmit_bus_ops = 0
    /\ next_id = 1
    /\ faults = 0
    /\ timeouts = 0
    /\ freed = 0
    /\ busy_seen = FALSE
    /\ deq_since_busy = 0
    /\ wake_since_busy = 0
    /\ variant = "correct"
    /\ FxUnused
    /\ RegUnused
    /\ QemuUnused
    /\ ProbeUnused
    /\ FwdUnused
    /\ RxUnused

(***************************************************************************)
(* adin2111_open                                                           *)
(***************************************************************************)
adin2111_open ==
    /\ variant \in {"correct", "kernel66"}
    /\ ~up /\ spc = "idle" /\ lock = "free"
    /\ \E rd \in BOOLEAN, wr \in BOOLEAN :
          /\ CanFail(rd /\ wr)
          /\ rd \/ wr          \* the write is issued only after a good read
          /\ faults' = Faulted(rd /\ wr)
          /\ IF rd /\ wr
             THEN /\ rx_thread_running' = TRUE
                  /\ link_work_pending' = TRUE
                  /\ queue_stopped' = FALSE
                  /\ up' = TRUE
             ELSE UNCHANGED <<rx_thread_running, link_work_pending,
                              queue_stopped, up>>
    /\ UNCHANGED <<others, ringvars, carrier_ok, workvars, xmitvars, spc, lock, stats,
                   fifovars, link_bit, xmit_bus_ops, next_id, timeouts, freed,
                   rtvars>>

(***************************************************************************)
(* adin2111_start_xmit, up to schedule_work.  The second ring check reads  *)
(* only the head this call wrote and the tail it read at entry, so its     *)
(* outcome is fixed here; netif_stop_queue itself happens in the next step.*)
(***************************************************************************)
\* a ring check that refuses one frame too early
XmitFull_early(head, tail) == CIRC_SPACE(head, tail, TX_RING_SIZE) < 2
XmitFull(head, tail) == CIRC_SPACE(head, tail, TX_RING_SIZE) < 1
XmitNearFull(head, tail) == CIRC_SPACE(head, tail, TX_RING_SIZE) < 2

adin2111_start_xmit ==
    /\ variant = "correct"
    /\ up /\ ~queue_stopped /\ xpc = "idle"
    /\ \E len \in XmitLens :
          IF len > ADIN2111_MAX_FRAME_SIZE
          THEN /\ stats.tx_dropped < MaxOversize
               /\ stats' = Bump("tx_dropped")
               /\ freed' = freed + 1
               /\ UNCHANGED <<ringvars, queue_stopped, tx_work_pending,
                              xmitvars, next_id, rtvars>>
          ELSE IF XmitFull(tx_head, tx_tail)
          THEN /\ queue_stopped' = TRUE
               /\ busy_seen' = TRUE
               /\ deq_since_busy' = 0
               /\ wake_since_busy' = 0
               /\ UNCHANGED <<ringvars, stats, freed, next_id,
                              tx_work_pending, xmitvars>>
          ELSE /\ next_id <= MaxFrames
               /\ tx_ring' = [tx_ring EXCEPT ![Slot(tx_head)] = next_id]
               /\ tx_head' = U32Inc(tx_head)
               /\ tx_work_pending' = TRUE
               /\ x_stop' = XmitNearFull(U32Inc(tx_head), tx_tail)
               /\ xpc' = "stopcheck"
               /\ next_id' = next_id + 1
               /\ busy_seen' = FALSE
               /\ deq_since_busy' = 0
               /\ wake_since_busy' = 0
               /\ UNCHANGED <<tx_tail, queue_stopped, stats, freed>>
    /\ UNCHANGED <<others, rx_thread_running, carrier_ok, up, wpc, w_tail, w_skb,
                   link_work_pending, spc, lock, fifovars, link_bit,
                   xmit_bus_ops, faults, timeouts>>

\* "stop queue if ring is getting full", return NETDEV_TX_OK
adin2111_start_xmit_tail ==
    /\ variant = "correct"
    /\ xpc = "stopcheck"
    /\ queue_stopped' = (queue_stopped \/ x_stop)
    /\ xpc' = "idle"
    /\ x_stop' = FALSE
    /\ UNCHANGED <<others, ringvars, rx_thread_running, carrier_ok, up, workvars,
                   link_work_pending, spc, lock, stats, fifovars, link_bit,
                   xmit_bus_ops, envvars, rtvars>>

(***************************************************************************)
(* adin2111_tx_worker                                                      *)
(***************************************************************************)
\* the workqueue starts the work item
tx_worker_run ==
    /\ variant = "correct"
    /\ tx_work_pending /\ wpc = "idle"
    /\ tx_work_pending' = FALSE
    /\ wpc' = "loop"
    /\ w_skb' = tx_ring[Slot(tx_tail)]
    /\ UNCHANGED <<others, ringvars, rx_thread_running, devvars, w_tail,
                   link_work_pending, xmitvars, spc, lock, stats, fifovars,
                   link_bit, xmit_bus_ops, envvars, rtvars>>

\* while (tx_tail != tx_head) { get next entry; if (!skb) break;
\* mutex_lock; read TX_SPACE; no space or error: unlock, schedule_work, break
TxNoSpace(ret_ok, tx_space, len) ==
    ~ret_ok \/ tx_space < len + ADIN2111_FRAME_HEADER_LEN

\* skb = entry->skb: tx_head and the entry are plain loads with no smp_rmb()
\* between them, so the entry may be read first and give what it held then
EntrySkb(ring, tail, early) == {ring[Slot(tail)], early}

tx_worker_next ==
    /\ variant = "correct"
    /\ wpc = "loop"
    /\ \E skb \in EntrySkb(tx_ring, tx_tail, w_skb) :
          IF tx_tail # tx_head /\ skb # NULL
          THEN /\ lock = "free"
               /\ \E ok \in BOOLEAN, tx_space \in TxSpaceValues :
                     /\ CanFail(ok)
                     /\ faults' = Faulted(ok)
                     /\ IF TxNoSpace(ok, tx_space, FrameLen)
                        THEN /\ tx_work_pending' = TRUE
                             /\ wpc' = "idle"
                             /\ UNCHANGED <<lock, w_tail>>
                        ELSE /\ wpc' = "write"
                             /\ w_tail' = tx_tail
                             /\ lock' = "tx_worker"
                             /\ UNCHANGED tx_work_pending
          ELSE /\ wpc' = "idle"
               /\ UNCHANGED <<w_tail, faults, tx_work_pending, lock>>
    /\ w_skb' = NULL
    /\ UNCHANGED <<others, ringvars, rx_thread_running, devvars, link_work_pending,
                   xmitvars, spc, stats, fifovars, link_bit, xmit_bus_ops,
                   next_id, timeouts, freed, rtvars>>

\* write header, write data, unlock, stats, free the skb, advance tx_tail
\* a consumer that steps over two slots
TxAdvance_skip(tail) == U32Inc(U32Inc(tail))
TxAdvance(tail) == U32Inc(tail)
\* tx_ring[tail % TX_RING_SIZE].skb = NULL; smp_wmb(); tx_tail = tail + 1:
\* the ring and the tail after the entry is retired
\* a consumer that leaves the entry where it is
TxConsume_again(ring, tail) == <<ring, tail>>
TxConsume(ring, tail) ==
    <<[ring EXCEPT ![Slot(tail)] = NULL], TxAdvance(tail)>>

tx_worker_write ==
    /\ variant = "correct"
    /\ wpc = "write"
    /\ \E hdr \in BOOLEAN, data \in BOOLEAN :
          /\ CanFail(hdr /\ data)
          /\ hdr \/ data       \* the data is written only after the header
          /\ faults' = Faulted(hdr /\ data)
          /\ IF hdr /\ data
             THEN /\ tx_fifo_last' = tx_ring[Slot(w_tail)]
                  /\ tx_fifo_cnt' = tx_fifo_cnt + 1
                  /\ stats' = [stats EXCEPT !.tx_packets = @ + 1,
                                            !.tx_bytes = @ + FrameLen]
             ELSE /\ stats' = Bump("tx_errors")
                  /\ UNCHANGED fifovars
    /\ lock' = "free"
    /\ freed' = freed + 1
    /\ tx_ring' = TxConsume(tx_ring, w_tail)[1]
    /\ tx_tail' = TxConsume(tx_ring, w_tail)[2]
    /\ deq_since_busy' = DeqSeen
    /\ wpc' = "wake"
    /\ w_tail' = 0
    /\ w_skb' = TxConsume(tx_ring, w_tail)[1][Slot(TxConsume(tx_ring, w_tail)[2])]
    /\ UNCHANGED <<others, tx_head, rx_thread_running, devvars, tx_work_pending,
                   link_work_pending, xmitvars, spc, link_bit, xmit_bus_ops,
                   next_id, timeouts, busy_seen, wake_since_busy>>

\* if (netif_queue_stopped) { if (CIRC_SPACE >= TX_RING_SIZE / 2) wake }
TxWakeNow(head, tail) ==
    CIRC_SPACE(head, tail, TX_RING_SIZE) >= TX_RING_SIZE \div 2

tx_worker_wake ==
    /\ variant = "correct"
    /\ wpc = "wake"
    /\ IF queue_stopped /\ TxWakeNow(tx_head, tx_tail)
       THEN queue_stopped' = FALSE /\ wake_since_busy' = WakeSeen
       ELSE UNCHANGED <<queue_stopped, wake_since_busy>>
    /\ wpc' = "loop"
    /\ UNCHANGED <<others, ringvars, rx_thread_running, carrier_ok, up,
                   tx_work_pending, w_tail, w_skb, link_work_pending, xmitvars, spc,
                   lock, stats, fifovars, link_bit, xmit_bus_ops, envvars,
                   busy_seen, deq_since_busy>>

(***************************************************************************)
(* adin2111_tx_timeout (the netdev watchdog calls it on a stopped queue)   *)
(***************************************************************************)
adin2111_tx_timeout ==
    /\ variant = "correct"
    /\ up /\ queue_stopped /\ carrier_ok
    /\ timeouts < MaxTimeouts
    /\ timeouts' = timeouts + 1
    /\ stats' = Bump("tx_errors")
    /\ tx_work_pending' = TRUE
    /\ UNCHANGED <<others, ringvars, rx_thread_running, devvars, wpc, w_tail, w_skb,
                   link_work_pending, xmitvars, spc, lock, fifovars, link_bit,
                   xmit_bus_ops, next_id, faults, freed, rtvars>>

(***************************************************************************)
(* adin2111_link_poll                                                      *)
(***************************************************************************)
adin2111_link_poll ==
    /\ variant = "correct"
    /\ link_work_pending /\ lock = "free"
    /\ \E ok \in BOOLEAN :
          /\ CanFail(ok)
          /\ faults' = Faulted(ok)
          /\ IF ok /\ link_bit /\ ~carrier_ok
             THEN /\ carrier_ok' = TRUE
                  /\ queue_stopped' = FALSE
             ELSE IF ok /\ ~link_bit /\ carrier_ok
             THEN /\ carrier_ok' = FALSE
                  /\ queue_stopped' = TRUE
             ELSE UNCHANGED <<carrier_ok, queue_stopped>>
    /\ link_work_pending' = rx_thread_running
    /\ UNCHANGED <<others, ringvars, rx_thread_running, up, workvars, xmitvars, spc,
                   lock, stats, fifovars, link_bit, xmit_bus_ops, next_id,
                   timeouts, freed, rtvars>>

\* the PHY reports a link transition
LinkChange ==
    /\ variant = "correct"
    /\ link_bit' = ~link_bit
    /\ UNCHANGED <<others, ringvars, rx_thread_running, devvars, workvars,
                   link_work_pending, xmitvars, spc, lock, stats, fifovars,
                   xmit_bus_ops, envvars, rtvars>>

(***************************************************************************)
(* adin2111_stop                                                           *)
(***************************************************************************)
\* the core clears __LINK_STATE_START; netif_stop_queue; rx_thread_running
adin2111_stop ==
    /\ variant \in {"correct", "kernel66"}
    /\ up /\ xpc = "idle" /\ spc = "idle"
    /\ up' = FALSE
    /\ queue_stopped' = TRUE
    /\ rx_thread_running' = FALSE
    /\ spc' = "cancel"
    /\ UNCHANGED <<others, ringvars, carrier_ok, workvars, link_work_pending,
                   xmitvars, lock, stats, fifovars, link_bit, xmit_bus_ops,
                   envvars, rtvars>>

\* skbs the drain loop of adin2111_stop frees
StopPending == {i \in 0..(TX_RING_SIZE - 1) :
                   /\ i < U32Dist(tx_head, tx_tail)
                   /\ tx_ring[Slot(tx_tail + i)] # NULL}

\* cancel_delayed_work_sync; cancel_work_sync; drop any pending TX
adin2111_stop_drain ==
    /\ variant \in {"correct", "kernel66"}
    /\ spc = "cancel" /\ wpc = "idle"
    /\ link_work_pending' = FALSE
    /\ tx_work_pending' = FALSE
    /\ freed' = freed + Cardinality(StopPending)
    /\ tx_ring' = [i \in 0..(TX_RING_SIZE - 1) |-> NULL]
    /\ tx_tail' = tx_head
    /\ carrier_ok' = FALSE
    /\ spc' = "closed"
    /\ UNCHANGED <<others, tx_head, rx_thread_running, queue_stopped, up, wpc, w_tail, w_skb,
                   xmitvars, lock, stats, fifovars, link_bit, xmit_bus_ops,
                   next_id, faults, timeouts, rtvars>>

NextTx ==
    \/ adin2111_open
    \/ adin2111_start_xmit
    \/ adin2111_start_xmit_tail
    \/ tx_worker_run
    \/ tx_worker_next
    \/ tx_worker_write
    \/ tx_worker_wake
    \/ adin2111_tx_timeout
    \/ adin2111_link_poll
    \/ LinkChange
    \/ adin2111_stop
    \/ adin2111_stop_drain

SpecTx == InitTx /\ [][NextTx]_vars

(***************************************************************************)
(* The variants without a TX ring leave the ring's state alone             *)
(***************************************************************************)
RingUnused ==
    /\ tx_ring = [i \in 0..(TX_RING_SIZE - 1) |-> NULL]
    /\ tx_head = 0
    /\ tx_tail = 0
    /\ rx_thread_running = FALSE
    /\ carrier_ok = TRUE
    /\ tx_work_pending = FALSE
    /\ wpc = "idle"
    /\ w_tail = 0
    /\ w_skb = NULL
    /\ link_work_pending = FALSE
    /\ xpc = "idle"
    /\ x_stop = FALSE
    /\ spc = "idle"
    /\ lock = "free"
    /\ link_bit = TRUE
    /\ timeouts = 0
    /\ deq_since_busy = 0
    /\ wake_since_busy = 0

\* the state of a net_device after alloc_etherdev
InitNetdev ==
    /\ queue_stopped = TRUE
    /\ up = FALSE
    /\ stats = ZeroStats
    /\ tx_fifo_last = 0
    /\ tx_fifo_cnt = 0
    /\ xmit_bus_ops = 0
    /\ next_id = 1
    /\ faults = 0
    /\ freed = 0
    /\ busy_seen = FALSE

(***************************************************************************)
(* adin2111_tx_frame (adin2111_netdev.c, adin2111_netdev_fixed.c):         *)
(* kmalloc, write TX_FSIZE, write the TX FIFO; stops at the first failure  *)
(***************************************************************************)
TxFrameResults == {"ok", "nomem", "fsize_fail", "fifo_fail"}
\* transport transactions adin2111_tx_frame has issued when it returns
TxFrameOps(res) ==
    CASE res = "nomem" -> 0
      [] res = "fsize_fail" -> 1
      [] OTHER -> 2

\* the caller's bookkeeping after adin2111_tx_frame, and the skb's release
TxFrameDone(res, id) ==
    /\ CanFail(res = "ok")
    /\ faults' = Faulted(res = "ok")
    /\ freed' = freed + 1
    /\ IF res = "ok"
       THEN /\ tx_fifo_last' = id
            /\ tx_fifo_cnt' = tx_fifo_cnt + 1
            /\ stats' = [stats EXCEPT !.tx_packets = @ + 1,
                                      !.tx_bytes = @ + FrameLen]
       ELSE /\ stats' = Bump("tx_errors")
            /\ UNCHANGED fifovars

(***************************************************************************)
(* SpecDirect: adin2111_netdev.c and adin2111_netdev_mvp.c                 *)
(***************************************************************************)
InitDirect ==
    /\ variant \in {"netdev", "mvp"}
    /\ InitNetdev
    /\ RingUnused
    /\ FxUnused
    /\ RegUnused
    /\ QemuUnused
    /\ ProbeUnused
    /\ FwdUnused
    /\ RxUnused

\* adin2111_open of adin2111_netdev.c: the PORT_FUNCT update may fail
netdev_open ==
    /\ variant \in {"netdev", "async"} /\ ~up
    /\ \E ok \in BOOLEAN :
          /\ CanFail(ok)
          /\ faults' = Faulted(ok)
          /\ up' = ok
          /\ queue_stopped' = ~ok
    /\ UNCHANGED <<ringonly, rxvars, fxvars, layervars, stats, fifovars, xmit_bus_ops,
                   next_id, freed, busy_seen>>

\* adin2111_open of adin2111_netdev_mvp.c: the IMASK1 write may fail
mvp_open ==
    /\ variant = "mvp" /\ ~up
    /\ \E ok \in BOOLEAN :
          /\ CanFail(ok)
          /\ faults' = Faulted(ok)
          /\ up' = ok
          /\ queue_stopped' = ~ok
    /\ UNCHANGED <<ringonly, rxvars, fxvars, layervars, stats, fifovars, xmit_bus_ops,
                   next_id, freed, busy_seen>>

\* adin2111_start_xmit of adin2111_netdev.c
netdev_start_xmit ==
    /\ variant = "netdev" /\ up /\ ~queue_stopped
    /\ \E len \in XmitLens :
          IF len > ADIN2111_MAX_FRAME_SIZE
          THEN /\ stats.tx_dropped < MaxOversize
               /\ stats' = Bump("tx_dropped")
               /\ freed' = freed + 1
               /\ UNCHANGED <<queue_stopped, fifovars, xmit_bus_ops, next_id,
                              faults, busy_seen>>
          ELSE \E rd \in BOOLEAN, tx_space \in TxSpaceValues :
                  /\ CanFail(rd)
                  /\ IF TxNoSpace(rd, tx_space, len)
                     THEN /\ faults' = Faulted(rd)
                          /\ xmit_bus_ops' = xmit_bus_ops + 1
                          /\ queue_stopped' = TRUE
                          /\ busy_seen' = TRUE
                          /\ UNCHANGED <<stats, fifovars, next_id, freed>>
                     ELSE \E res \in TxFrameResults :
                             /\ next_id <= MaxFrames
                             /\ TxFrameDone(res, next_id)
                             /\ xmit_bus_ops' =
                                    xmit_bus_ops + 1 + TxFrameOps(res)
                             /\ next_id' = next_id + 1
                             /\ busy_seen' = FALSE
                             /\ UNCHANGED queue_stopped
    /\ UNCHANGED <<ringonly, rxvars, fxvars, layervars, up>>

\* adin2111_start_xmit of adin2111_netdev_mvp.c
mvp_start_xmit ==
    /\ variant = "mvp" /\ up /\ ~queue_stopped
    /\ \E len \in XmitLens, lin \in BOOLEAN :
          IF len > ADIN2111_MAX_FRAME_SIZE \/ ~lin
          THEN \* oversize or GSO, or skb_linearize failed
               /\ stats.tx_dropped < MaxOversize
               /\ stats' = Bump("tx_dropped")
               /\ freed' = freed + 1
               /\ UNCHANGED <<queue_stopped, fifovars, xmit_bus_ops, next_id,
                              faults, busy_seen>>
          ELSE \E rd \in BOOLEAN, tx_space \in TxSpaceValues,
                  hdr \in BOOLEAN, data \in BOOLEAN :
                  /\ CanFail(rd /\ hdr /\ data)
                  /\ IF TxNoSpace(rd, tx_space, len)
                     THEN /\ hdr /\ data
                          /\ xmit_bus_ops < MaxBusyOps
                          /\ faults' = Faulted(rd)
                          /\ xmit_bus_ops' = xmit_bus_ops + 1
                          /\ queue_stopped' = TRUE
                          /\ busy_seen' = TRUE
                          /\ UNCHANGED <<stats, fifovars, next_id, freed>>
                     ELSE /\ next_id <= MaxFrames
                          /\ hdr \/ data
                          /\ faults' = Faulted(hdr /\ data)
                          /\ xmit_bus_ops' =
                                 xmit_bus_ops + (IF hdr THEN 3 ELSE 2)
                          /\ queue_stopped' = ~hdr
                          /\ freed' = freed + 1
                          /\ next_id' = next_id + 1
                          /\ busy_seen' = FALSE
                          /\ IF hdr /\ data
                             THEN /\ tx_fifo_last' = next_id
                                  /\ tx_fifo_cnt' = tx_fifo_cnt + 1
                                  /\ stats' =
                                       [stats EXCEPT !.tx_packets = @ + 1,
                                                     !.tx_bytes = @ + FrameLen]
                             ELSE /\ stats' = Bump("tx_errors")
                                  /\ UNCHANGED fifovars
    /\ UNCHANGED <<ringonly, rxvars, fxvars, layervars, up>>

\* adin2111_irq_handler of adin2111_netdev_mvp.c, "check for TX complete and
\* wake queue if needed": an interrupt with STATUS0.TXPE set; both status
\* registers were read
mvp_irq_handler_txpe ==
    /\ variant = "mvp" /\ up
    /\ queue_stopped
    /\ queue_stopped' = FALSE
    /\ UNCHANGED <<ringonly, rxvars, fxvars, layervars, up, stats, fifovars,
                   xmit_bus_ops, next_id, faults, freed, busy_seen>>

NextDirect ==
    \/ netdev_open
    \/ mvp_open
    \/ netdev_start_xmit
    \/ mvp_start_xmit
    \/ mvp_irq_handler_txpe

SpecDirect == InitDirect /\ [][NextDirect]_vars

\* the device raises its interrupt with TXPE set once TX space is available
SpecDirectFair == SpecDirect /\ WF_vars(mvp_irq_handler_txpe)

(***************************************************************************)
(* C2: ndo_start_xmit never performs a register or FIFO transaction on the *)
(* transport.                                                              *)
(***************************************************************************)
C2_XmitOffBus == xmit_bus_ops = 0

(***************************************************************************)
(* SpecFixed: adin2111_netdev_fixed.c.  "work": ndo_start_xmit queues one  *)
(* adin2111_tx_work per frame on system_wq; "tasklet": it appends to       *)
(* port->tx_queue and schedules the tasklet.                               *)
(***************************************************************************)
InitFixed ==
    /\ variant \in {"work", "tasklet"}
    /\ InitNetdev
    /\ RingUnused
    /\ FxUnused
    /\ RegUnused
    /\ QemuUnused
    /\ ProbeUnused
    /\ FwdUnused
    /\ RxUnused

\* adin2111_open: skb_queue_head_init, tasklet_init; PORT_FUNCT may fail
fixed_open ==
    /\ variant \in {"work", "tasklet"}
    /\ ~up /\ spc = "idle"
    /\ \E ok \in BOOLEAN :
          /\ CanFail(ok)
          /\ faults' = Faulted(ok)
          /\ up' = ok
          /\ queue_stopped' = ~ok
    /\ tx_queue' = <<>>
    /\ UNCHANGED <<ringonly, rxvars, layervars, works, tasklet_pending, tpc, stats,
                   fifovars, xmit_bus_ops, next_id, freed, busy_seen>>

\* adin2111_start_xmit: kmalloc(GFP_ATOMIC) a work item, queue_work
fixed_start_xmit ==
    /\ variant = "work" /\ up /\ ~queue_stopped
    /\ \E len \in XmitLens, alloc \in BOOLEAN :
          IF len > ADIN2111_MAX_FRAME_SIZE \/ ~alloc
          THEN /\ stats.tx_dropped < MaxOversize
               /\ stats' = Bump("tx_dropped")
               /\ freed' = freed + 1
               /\ UNCHANGED <<works, next_id>>
          ELSE /\ next_id <= MaxFrames
               /\ Cardinality(works) < MaxWorkItems
               /\ works' = works \cup {next_id}
               /\ next_id' = next_id + 1
               /\ UNCHANGED <<stats, freed>>
    /\ UNCHANGED <<ringonly, rxvars, layervars, tx_queue, tasklet_pending, tpc,
                   queue_stopped, up, fifovars, xmit_bus_ops, faults,
                   busy_seen>>

\* adin2111_tx_work_handler, for whichever queued work item a worker of
\* system_wq gets priv->lock for next
adin2111_tx_work_handler ==
    /\ variant = "work"
    /\ \E id \in works :
          /\ works' = works \ {id}
          /\ \E rd \in BOOLEAN, tx_space \in TxSpaceValues :
                /\ CanFail(rd)
                /\ IF TxNoSpace(rd, tx_space, FrameLen)
                   THEN /\ faults' = Faulted(rd)
                        /\ queue_stopped' = TRUE
                        /\ freed' = freed + 1
                        /\ stats' = Bump("tx_dropped")
                        /\ UNCHANGED fifovars
                   ELSE \E res \in TxFrameResults :
                           /\ TxFrameDone(res, id)
                           /\ queue_stopped' = FALSE
    /\ UNCHANGED <<ringonly, rxvars, layervars, tx_queue, tasklet_pending, tpc, up,
                   xmit_bus_ops, next_id, busy_seen>>

\* adin2111_start_xmit_tasklet: skb_queue_tail, tasklet_schedule
fixed_start_xmit_tasklet ==
    /\ variant = "tasklet" /\ up /\ ~queue_stopped
    /\ \E len \in XmitLens :
          IF len > ADIN2111_MAX_FRAME_SIZE
          THEN /\ stats.tx_dropped < MaxOversize
               /\ stats' = Bump("tx_dropped")
               /\ freed' = freed + 1
               /\ UNCHANGED <<tx_queue, tasklet_pending, next_id>>
          ELSE /\ next_id <= MaxFrames
               /\ tx_queue' = Append(tx_queue, next_id)
               /\ tasklet_pending' = TRUE
               /\ next_id' = next_id + 1
               /\ UNCHANGED <<stats, freed>>
    /\ UNCHANGED <<ringonly, rxvars, layervars, works, tpc, queue_stopped, up,
                   fifovars, xmit_bus_ops, faults, busy_seen>>

\* the softirq starts the tasklet
tx_tasklet_run ==
    /\ variant = "tasklet"
    /\ tasklet_pending /\ tpc = "idle"
    /\ tasklet_pending' = FALSE
    /\ tpc' = "loop"
    /\ UNCHANGED <<ringonly, rxvars, layervars, works, tx_queue, queue_stopped, up,
                   stats, fifovars, xmit_bus_ops, next_id, faults, freed,
                   busy_seen>>

\* adin2111_tx_tasklet: one turn of "while ((skb = skb_dequeue(...)))"
adin2111_tx_tasklet ==
    /\ variant = "tasklet"
    /\ tpc = "loop"
    /\ IF tx_queue = <<>>
       THEN /\ tpc' = "end"
            /\ UNCHANGED <<tx_queue, queue_stopped, stats, fifovars, faults,
                           freed>>
       ELSE \E rd \in BOOLEAN, tx_space \in TxSpaceValues :
               /\ CanFail(rd)
               /\ IF TxNoSpace(rd, tx_space, FrameLen)
                  THEN \* skb_queue_head: the skb goes back to the front
                       /\ faults' = Faulted(rd)
                       /\ queue_stopped' = TRUE
                       /\ tpc' = "end"
                       /\ UNCHANGED <<tx_queue, stats, fifovars, freed>>
                  ELSE \E res \in TxFrameResults :
                          /\ TxFrameDone(res, Head(tx_queue))
                          /\ tx_queue' = Tail(tx_queue)
                          /\ tpc' = "loop"
                          /\ UNCHANGED queue_stopped
    /\ UNCHANGED <<ringonly, rxvars, layervars, works, tasklet_pending, up,
                   xmit_bus_ops, next_id, busy_seen>>

\* "wake queue if packets were transmitted"
tx_tasklet_end ==
    /\ variant = "tasklet"
    /\ tpc = "end"
    /\ queue_stopped' = (queue_stopped /\ tx_queue # <<>>)
    /\ tpc' = "idle"
    /\ UNCHANGED <<ringonly, rxvars, layervars, works, tx_queue, tasklet_pending, up,
                   stats, fifovars, xmit_bus_ops, next_id, faults, freed,
                   busy_seen>>

\* adin2111_stop: netif_stop_queue; tasklet_kill returns once the tasklet
\* is neither scheduled nor running; skb_queue_purge
fixed_stop ==
    /\ variant \in {"work", "tasklet"}
    /\ up /\ ~tasklet_pending /\ tpc = "idle"
    /\ up' = FALSE
    /\ queue_stopped' = TRUE
    /\ UNCHANGED tasklet_pending
    /\ freed' = freed + Len(tx_queue)
    /\ tx_queue' = <<>>
    /\ spc' = "closed"
    /\ UNCHANGED <<tx_ring, tx_head, tx_tail, rx_thread_running, carrier_ok,
                   tx_work_pending, wpc, w_tail, w_skb, link_work_pending, xpc,
                   x_stop, lock, link_bit, timeouts, deq_since_busy,
                   wake_since_busy, layervars, works, tpc, stats, fifovars,
                   xmit_bus_ops, next_id, faults, busy_seen, rxvars>>

NextTasklet ==
    \/ fixed_open
    \/ fixed_start_xmit_tasklet
    \/ tx_tasklet_run
    \/ adin2111_tx_tasklet
    \/ tx_tasklet_end
    \/ fixed_stop

NextFixed ==
    \/ fixed_start_xmit
    \/ adin2111_tx_work_handler
    \/ NextTasklet

SpecFixed == InitFixed /\ [][NextFixed]_vars

(***************************************************************************)
(* SpecQueued: the two transmit paths that keep their frames in a queue    *)
(* with one consumer: the TX ring of adin2111_netdev_correct.c and the     *)
(* tasklet with port->tx_queue of adin2111_netdev_fixed.c.                 *)
(***************************************************************************)
InitQueued == InitTx \/ (InitFixed /\ variant = "tasklet")

NextQueued == NextTx \/ NextTasklet

SpecQueued == InitQueued /\ [][NextQueued]_vars

(***************************************************************************)
(* C5: frames accepted for transmission reach the device in the order in   *)
(* which they were accepted: the frame written to the TX FIFO is never an  *)
(* earlier one than the frame written before it.                           *)
(***************************************************************************)
C5_FifoOrder == [][tx_fifo_last' >= tx_fifo_last]_vars

(***************************************************************************)
(* SpecRx: the receive loops.  adin2111_rx_thread of                       *)
(* adin2111_netdev_correct.c and of adin2111_netdev_kernel66.c,            *)
(* adin2111_napi_poll of adin2111_netdev_mvp.c, adin2111_rx_handler of     *)
(* adin2111_netdev.c.  The device keeps one RX-ready bit per port in       *)
(* STATUS1 (set when a frame arrives, cleared by writing a one to it), the *)
(* size of the frame at the head of the RX FIFO (0: none) and the frame;   *)
(* a completed read of the FIFO takes the frame out.                       *)
(***************************************************************************)
InitRx ==
    /\ variant \in {"correct", "kernel66", "mvp", "netdev", "hybrid"}
    /\ InitNetdev
    /\ RingUnused
    /\ FxUnused
    /\ RegUnused
    /\ QemuUnused
    /\ ProbeUnused
    /\ FwdUnused
    /\ port_num \in {0, 1}
    /\ rx_rdy = {}
    /\ rx_fsize = 0
    /\ rx_frame = 0
    /\ next_rx = 1
    /\ rpc = "check"
    /\ sink_last = 0
    /\ sink_cnt = 0
    /\ rx_nomem = 0

\* what the receive loops leave alone
rxrest == <<tx_ring, tx_head, tx_tail, rx_thread_running, carrier_ok, up,
            tx_work_pending, wpc, w_tail, w_skb, link_work_pending, xpc, x_stop,
            spc, lock, tx_fifo_last, tx_fifo_cnt, link_bit, xmit_bus_ops,
            next_id, timeouts, freed, busy_seen, deq_since_busy,
            wake_since_busy, layervars, works, tx_queue, tasklet_pending, tpc,
            port_num, next_rx>>

\* a frame arrives from the wire: it is stored in the port's RX FIFO and
\* the port's RX-ready bit is set
DeviceReceive ==
    /\ next_rx <= MaxRxFrames
    /\ \E size \in RxSizes :
          rx_fsize' = size
    /\ rx_frame' = next_rx
    /\ next_rx' = next_rx + 1
    /\ rx_rdy' = rx_rdy \cup {port_num}
    /\ UNCHANGED <<tx_ring, tx_head, tx_tail, rx_thread_running, devvars,
                   workvars, link_work_pending, xmitvars, spc, lock, stats,
                   fifovars, link_bit, xmit_bus_ops, envvars, rtvars,
                   layervars, fxvars, port_num, rpc, sink_last, sink_cnt,
                   rx_nomem>>

\* outcomes of the transactions and allocations of one RX iteration
RxResults == {"ok", "status_fail", "size_fail", "nomem", "fifo_fail"}
\* a transport failure draws on the fault budget, an allocation failure on
\* its own
RxCanFail(res) ==
    /\ res \in {"status_fail", "size_fail", "fifo_fail"} => faults < MaxFaults
    /\ res \in {"nomem", "nomem_skb"} => rx_nomem < MaxRxNomem
RxFaulted(res) ==
    IF res \in {"status_fail", "size_fail", "fifo_fail"}
    THEN faults + 1 ELSE faults
RxNomem(res) ==
    IF res \in {"nomem", "nomem_skb"} THEN rx_nomem + 1 ELSE rx_nomem

\* status1 & rx_ready_mask
RxReady == port_num \in rx_rdy
\* adin2111_write_reg(priv, ADIN2111_STATUS1, mask)
ClearReady(mask) == rx_rdy \ mask
\* rx_size & 0xFFFF
FrameSize16(rx_size) == rx_size % 65536
\* rx_fsize & 0x7FF
FrameSize11(rx_size) == rx_size % 2048

\* rx_packets++, rx_bytes += len; the skb goes to the network stack
\* a delivery that is not counted
RxDeliver_uncounted(len) ==
    /\ stats' = [stats EXCEPT !.rx_bytes = @ + len]
    /\ sink_last' = rx_frame
    /\ sink_cnt' = sink_cnt + 1
    /\ rx_frame' = 0
    /\ rx_fsize' = 0
RxDeliver(len) ==
    /\ stats' = [stats EXCEPT !.rx_packets = @ + 1, !.rx_bytes = @ + len]
    /\ sink_last' = rx_frame
    /\ sink_cnt' = sink_cnt + 1
    /\ rx_frame' = 0
    /\ rx_fsize' = 0

\* the head of "while (!kthread_should_stop())": the thread goes on to an
\* iteration when it finds rx_thread_running set, and sleeps otherwise
rx_thread_check ==
    /\ variant \in {"correct", "kernel66"}
    /\ rpc = "check"
    /\ rx_thread_running
    /\ rpc' = "poll"
    /\ UNCHANGED <<rxrest, rx_rdy, rx_fsize, rx_frame, sink_last, sink_cnt,
                   stats, faults, queue_stopped, rx_nomem>>

\* adin2111_rx_thread of adin2111_netdev_correct.c: one iteration
adin2111_rx_thread ==
    /\ variant = "correct"
    /\ rpc = "poll"
    /\ rpc' = "check"
    /\ \E res \in RxResults :
          /\ RxCanFail(res)
          /\ faults' = RxFaulted(res)
          /\ rx_nomem' = RxNomem(res)
          /\ IF res = "status_fail"
             THEN UNCHANGED <<rx_rdy, rx_fsize, rx_frame, sink_last,
                              sink_cnt, stats>>
             ELSE IF ~RxReady
             THEN /\ res = "ok"
                  /\ UNCHANGED <<rx_rdy, rx_fsize, rx_frame, sink_last,
                                 sink_cnt, stats>>
             ELSE IF res = "size_fail" \/ rx_fsize = 0
             THEN /\ res \in {"ok", "size_fail"}
                  /\ UNCHANGED <<rx_rdy, rx_fsize, rx_frame, sink_last,
                                 sink_cnt, stats>>
             ELSE IF FrameSize16(rx_fsize) > ADIN2111_MAX_FRAME_SIZE
             THEN /\ res = "ok"
                  /\ rx_rdy' = ClearReady({port_num})
                  /\ stats' = Bump("rx_errors")
                  /\ UNCHANGED <<rx_fsize, rx_frame, sink_last, sink_cnt>>
             ELSE IF res = "nomem"
             THEN /\ stats' = Bump("rx_dropped")
                  /\ rx_rdy' = ClearReady({port_num})
                  /\ UNCHANGED <<rx_fsize, rx_frame, sink_last, sink_cnt>>
             ELSE IF res = "fifo_fail"
             THEN /\ rx_rdy' = ClearReady({port_num})
                  /\ UNCHANGED <<rx_fsize, rx_frame, sink_last, sink_cnt,
                                 stats>>
             ELSE /\ rx_rdy' = ClearReady({port_num})
                  /\ RxDeliver(FrameSize16(rx_fsize))
    /\ UNCHANGED <<rxrest, queue_stopped>>

\* adin2111_rx_thread of adin2111_netdev_kernel66.c: one iteration
kernel66_rx_thread ==
    /\ variant = "kernel66"
    /\ rpc = "poll"
    /\ rpc' = "check"
    /\ \E res \in RxResults \ {"status_fail"} :
          /\ RxCanFail(res)
          /\ faults' = RxFaulted(res)
          /\ rx_nomem' = RxNomem(res)
          /\ IF res = "size_fail" \/ rx_fsize = 0
             THEN /\ res \in {"ok", "size_fail"}
                  /\ UNCHANGED <<rx_rdy, rx_fsize, rx_frame, sink_last,
                                 sink_cnt, stats>>
             ELSE IF FrameSize16(rx_fsize) > RX_MAX_FRAME_SIZE
             THEN \* BIT(17), the ready bit of port 1, for either port
                  /\ res = "ok"
                  /\ rx_rdy' = ClearReady({1})
                  /\ UNCHANGED <<rx_fsize, rx_frame, sink_last, sink_cnt,
                                 stats>>
             ELSE IF res = "nomem"
             THEN /\ stats' = Bump("rx_dropped")
                  /\ UNCHANGED <<rx_rdy, rx_fsize, rx_frame, sink_last,
                                 sink_cnt>>
             ELSE IF res = "fifo_fail"
             THEN /\ rx_rdy' = ClearReady({port_num})
                  /\ UNCHANGED <<rx_fsize, rx_frame, sink_last, sink_cnt,
                                 stats>>
             ELSE /\ rx_rdy' = ClearReady({port_num})
                  /\ RxDeliver(FrameSize16(rx_fsize))
    /\ UNCHANGED <<rxrest, queue_stopped>>

\* adin2111_irq_handler of adin2111_netdev_mvp.c: reads STATUS0 and
\* STATUS1, schedules NAPI for a port whose RX-ready bit is set, wakes the
\* queue on TXPE and writes both status values back
mvp_irq_handler ==
    /\ variant = "mvp"
    /\ up
    /\ RxReady
    /\ \E ok \in BOOLEAN, txpe \in BOOLEAN :
          /\ CanFail(ok)
          /\ faults' = Faulted(ok)
          /\ IF ok
             THEN /\ rpc' = "poll"
                  /\ queue_stopped' = (queue_stopped /\ ~txpe)
                  /\ rx_rdy' = ClearReady(rx_rdy)
             ELSE /\ ~txpe
                  /\ UNCHANGED <<rpc, queue_stopped, rx_rdy>>
    /\ UNCHANGED <<rxrest, rx_fsize, rx_frame, sink_last, sink_cnt, stats,
                   rx_nomem>>

\* adin2111_napi_poll: one turn of "while (work_done < budget)"; the budget
\* is larger than MaxRxFrames.  A break ends the poll (napi_complete_done).
adin2111_napi_poll ==
    /\ variant = "mvp"
    /\ rpc = "poll"
    /\ \E res \in RxResults :
          /\ RxCanFail(res)
          /\ faults' = RxFaulted(res)
          /\ rx_nomem' = RxNomem(res)
          /\ IF res = "status_fail"
             THEN /\ rpc' = "check"
                  /\ UNCHANGED <<rx_rdy, rx_fsize, rx_frame, sink_last,
                                 sink_cnt, stats>>
             ELSE IF ~RxReady
             THEN /\ res = "ok"
                  /\ rpc' = "check"
                  /\ UNCHANGED <<rx_rdy, rx_fsize, rx_frame, sink_last,
                                 sink_cnt, stats>>
             ELSE IF res = "size_fail" \/ rx_fsize = 0
             THEN /\ res \in {"ok", "size_fail"}
                  /\ rpc' = "check"
                  /\ UNCHANGED <<rx_rdy, rx_fsize, rx_frame, sink_last,
                                 sink_cnt, stats>>
             ELSE IF FrameSize16(rx_fsize) > ADIN2111_MAX_FRAME_SIZE
             THEN /\ res = "ok"
                  /\ rx_rdy' = ClearReady({port_num})
                  /\ stats' = Bump("rx_errors")
                  /\ rpc' = "poll"
                  /\ UNCHANGED <<rx_fsize, rx_frame, sink_last, sink_cnt>>
             ELSE IF res = "nomem"
             THEN /\ stats' = Bump("rx_dropped")
                  /\ rpc' = "check"
                  /\ UNCHANGED <<rx_rdy, rx_fsize, rx_frame, sink_last,
                                 sink_cnt>>
             ELSE IF res = "fifo_fail"
             THEN /\ rpc' = "check"
                  /\ UNCHANGED <<rx_rdy, rx_fsize, rx_frame, sink_last,
                                 sink_cnt, stats>>
             ELSE /\ RxDeliver(FrameSize16(rx_fsize))
                  /\ rx_rdy' = ClearReady({port_num})
                  /\ rpc' = "poll"
    /\ UNCHANGED <<rxrest, queue_stopped>>

\* adin2111_rx_handler of adin2111_netdev.c, called for a ready frame.
\* "nomem" is the failure of netdev_alloc_skb after the FIFO was read; a
\* kmalloc failure returns before anything is done.
adin2111_rx_handler ==
    /\ variant = "netdev"
    /\ up
    /\ RxReady
    /\ \E res \in RxResults \ {"status_fail"} :
          /\ RxCanFail(res)
          /\ faults' = RxFaulted(res)
          /\ rx_nomem' = RxNomem(res)
          /\ IF res = "size_fail" \/ rx_fsize = 0
             THEN /\ res \in {"ok", "size_fail"}
                  /\ UNCHANGED <<rx_fsize, rx_frame, sink_last, sink_cnt,
                                 stats>>
             ELSE IF \/ FrameSize11(rx_fsize) < ADIN2111_FRAME_HEADER_LEN
                     \/ FrameSize11(rx_fsize) >
                           ADIN2111_MAX_FRAME_SIZE + ADIN2111_FRAME_HEADER_LEN
             THEN /\ res = "ok"
                  /\ UNCHANGED <<rx_fsize, rx_frame, sink_last, sink_cnt,
                                 stats>>
             ELSE IF res = "fifo_fail"
             THEN UNCHANGED <<rx_fsize, rx_frame, sink_last, sink_cnt, stats>>
             ELSE IF res = "nomem"
             THEN /\ stats' = Bump("rx_dropped")
                  /\ rx_frame' = 0
                  /\ rx_fsize' = 0
                  /\ UNCHANGED <<sink_last, sink_cnt>>
             ELSE RxDeliver(FrameSize11(rx_fsize) - ADIN2111_FRAME_HEADER_LEN)
    /\ UNCHANGED <<rxrest, rx_rdy, rpc, queue_stopped>>

\* adin2111_single_open of adin2111_hybrid.c: adin2111_enable_hw_forwarding
\* or the IMASK1 write may fail
hybrid_open ==
    /\ variant \in {"hybrid", "hybridtx"} /\ ~up
    /\ \E ok \in BOOLEAN :
          /\ CanFail(ok)
          /\ faults' = Faulted(ok)
          /\ up' = ok
          /\ queue_stopped' = ~ok
    /\ UNCHANGED <<ringonly, rxvars, fxvars, layervars, stats, fifovars,
                   xmit_bus_ops, next_id, freed, busy_seen>>

\* adin1110_irq of adin2111_hybrid.c with adin1110_read_fifo for the port:
\* "status_fail" is a failure of the STATUS0 or STATUS1 read or of the
\* STATUS0 write, "nomem" of kzalloc before the FIFO is read, "nomem_skb" of
\* netdev_alloc_skb after it.  A size below the frame header makes
\* frame_size - ADIN1110_FRAME_HEADER_LEN wrap: no skb can take the copy and
\* nothing is delivered.  The handler never writes STATUS1.
adin1110_irq ==
    /\ variant = "hybrid"
    /\ up
    /\ RxReady
    /\ \E res \in RxResults \cup {"nomem_skb"} :
          /\ RxCanFail(res)
          /\ faults' = RxFaulted(res)
          /\ rx_nomem' = RxNomem(res)
          /\ IF res = "status_fail"
             THEN UNCHANGED <<rx_fsize, rx_frame, sink_last, sink_cnt, stats>>
             ELSE IF res = "size_fail" \/ FrameSize16(rx_fsize) = 0
             THEN /\ res \in {"ok", "size_fail"}
                  /\ UNCHANGED <<rx_fsize, rx_frame, sink_last, sink_cnt,
                                 stats>>
             ELSE IF res \in {"nomem", "fifo_fail"}
             THEN UNCHANGED <<rx_fsize, rx_frame, sink_last, sink_cnt, stats>>
             ELSE IF \/ res = "nomem_skb"
                     \/ FrameSize16(rx_fsize) < ADIN2111_FRAME_HEADER_LEN
             THEN /\ rx_frame' = 0
                  /\ rx_fsize' = 0
                  /\ UNCHANGED <<sink_last, sink_cnt, stats>>
             ELSE RxDeliver(FrameSize16(rx_fsize) - ADIN2111_FRAME_HEADER_LEN)
    /\ UNCHANGED <<rxrest, rx_rdy, rpc, queue_stopped>>

NextRx ==
    \/ adin2111_open
    \/ adin2111_stop
    \/ adin2111_stop_drain
    \/ mvp_open
    \/ netdev_open
    \/ DeviceReceive
    \/ rx_thread_check
    \/ adin2111_rx_thread
    \/ kernel66_rx_thread
    \/ mvp_irq_handler
    \/ adin2111_napi_poll
    \/ adin2111_rx_handler
    \/ hybrid_open
    \/ adin1110_irq

SpecRx == InitRx /\ [][NextRx]_vars

\* one pass of a receive loop over a ready frame
RxIteration ==
    \/ adin2111_rx_thread
    \/ kernel66_rx_thread
    \/ adin2111_napi_poll
    \/ adin2111_rx_handler
    \/ adin1110_irq

\* the size the loop takes from the size register
RxFrameSize ==
    IF variant = "netdev" THEN FrameSize11(rx_fsize)
                          ELSE FrameSize16(rx_fsize)

(***************************************************************************)
(* C9: when the RX loop reads a frame size outside                         *)
(* [header_len, max_frame_len + header_len], it clears the port's ready    *)
(* bit, increments rx_errors and reads no frame data from the FIFO.        *)
(***************************************************************************)
C9_SizeRejected ==
    [][(/\ RxIteration
        /\ RxReady /\ rx_frame # 0
        /\ faults' = faults
        /\ \/ RxFrameSize < ADIN2111_FRAME_HEADER_LEN
           \/ RxFrameSize > ADIN2111_MAX_FRAME_SIZE + ADIN2111_FRAME_HEADER_LEN)
       => /\ port_num \notin rx_rdy'
          /\ stats'.rx_errors = stats.rx_errors + 1
          /\ rx_frame' = rx_frame]_vars

(***************************************************************************)
(* C10: when a transport operation of an RX iteration fails, the loop      *)
(* leaves the ready bit as it is and counts the error in rx_errors, so     *)
(* that the frame is read again on a later iteration.                      *)
(***************************************************************************)
C10_RxErrorRetries ==
    [][(RxIteration /\ faults' # faults)
       => /\ rx_rdy' = rx_rdy
          /\ stats'.rx_errors = stats.rx_errors + 1]_vars

(***************************************************************************)
(* SpecReg: the register access layer.  adin2111_spi.c over the regmap     *)
(* ("regmap"), adin2111_hybrid.c over spi_sync_transfer ("hybrid"), and    *)
(* the SPI mock of the test framework ("mock").                            *)
(***************************************************************************)
\* C's & | and & ~ on values below 2^31
RECURSIVE BitAnd(_, _)
BitAnd(a, b) ==
    IF a = 0 \/ b = 0
    THEN 0
    ELSE (a % 2) * (b % 2) + 2 * BitAnd(a \div 2, b \div 2)
BitOr(a, b) == a + b - BitAnd(a, b)
BitClear(a, m) == a - BitAnd(a, m)

\* the registers the model follows, the addresses a caller passes, and the
\* values a register or an uninitialised u32 may hold
DrvRegs == {ADIN1110_CONFIG2}
RegAddrs == {ADIN1110_CONFIG2, max_register + 1}
MockRegs == {ADIN1110_CONFIG2}
MockAddrs == {ADIN1110_CONFIG2, MOCK_REGISTERS}
RegValues == {0, ADIN1110_FWD_UNK2HOST,
              ADIN2111_P2_FWD_UNK2HOST + ADIN1110_FWD_UNK2HOST,
              ADIN2111_PORT_CUT_THRU_EN}

netdevvars == <<ringonly, fxvars, rxvars, queue_stopped, up, stats, fifovars,
                xmit_bus_ops, next_id, freed, busy_seen, initvars, fwdvars>>

InitReg ==
    /\ variant \in {"regmap", "hybrid", "mock"}
    /\ InitNetdev
    /\ RingUnused
    /\ FxUnused /\ RxUnused
    /\ QemuUnused
    /\ ProbeUnused
    /\ FwdUnused
    /\ dev_regs \in [DrvRegs -> {0, ADIN2111_P2_FWD_UNK2HOST
                                     + ADIN1110_FWD_UNK2HOST}]
    /\ val_out = 0
    /\ forwarding_en = FALSE
    /\ registers = [r \in MockRegs |-> 0]
    /\ transaction_count = 0
    /\ last_error = ""
    /\ reg_call = NoCall

\* the call returned
Returned(fn, reg, ret) == reg_call' = [fn |-> fn, reg |-> reg, ret |-> ret]

\* adin2111_read_reg: regmap_read leaves tmp unwritten when it fails (the
\* register is beyond max_register, or adin2111_spi_reg_read returns before
\* it stores *val), and *val = tmp then copies an uninitialised value
adin2111_read_reg ==
    /\ variant = "regmap"
    /\ \E reg \in RegAddrs, ok \in BOOLEAN :
          /\ CanFail(ok)
          /\ reg > max_register => ok
          /\ faults' = Faulted(ok)
          /\ IF ok /\ reg <= max_register
             THEN /\ val_out' = dev_regs[reg] % 65536
                  /\ Returned("read_reg", reg, 0)
             ELSE /\ val_out' \in RegValues
                  /\ Returned("read_reg", reg, -EIO)
    /\ UNCHANGED <<netdevvars, qvars, variant, dev_regs, forwarding_en, registers,
                   transaction_count, last_error>>

\* adin2111_write_reg: regmap_write, then adin2111_spi_reg_write sends the
\* low 16 bits
adin2111_write_reg ==
    /\ variant = "regmap"
    /\ \E reg \in RegAddrs, val \in RegValues, ok \in BOOLEAN :
          /\ CanFail(ok)
          /\ reg > max_register => ok
          /\ faults' = Faulted(ok)
          /\ IF ok /\ reg <= max_register
             THEN /\ dev_regs' = [dev_regs EXCEPT ![reg] = val % 65536]
                  /\ Returned("write_reg", reg, 0)
             ELSE /\ UNCHANGED dev_regs
                  /\ Returned("write_reg", reg, -EIO)
    /\ UNCHANGED <<netdevvars, qvars, variant, val_out, forwarding_en, registers,
                   transaction_count, last_error>>

\* adin2111_modify_reg: regmap_update_bits reads, and writes when the value
\* changes
adin2111_modify_reg ==
    /\ variant = "regmap"
    /\ \E reg \in RegAddrs, mask \in RegValues, val \in RegValues,
          res \in {"ok", "read_fail", "write_fail"} :
          /\ CanFail(res = "ok")
          /\ reg > max_register => res = "ok"
          /\ faults' = Faulted(res = "ok")
          /\ IF reg > max_register \/ res = "read_fail"
             THEN /\ UNCHANGED dev_regs
                  /\ Returned("modify_reg", reg, -EIO)
             ELSE LET orig == dev_regs[reg]
                      tmp  == BitOr(BitClear(orig, mask), BitAnd(val, mask))
                  IN  IF tmp = orig
                      THEN /\ res = "ok"
                           /\ UNCHANGED dev_regs
                           /\ Returned("modify_reg", reg, 0)
                      ELSE IF res = "write_fail"
                      THEN /\ UNCHANGED dev_regs
                           /\ Returned("modify_reg", reg, -EIO)
                      ELSE /\ dev_regs' = [dev_regs EXCEPT ![reg] = tmp]
                           /\ Returned("modify_reg", reg, 0)
    /\ UNCHANGED <<netdevvars, qvars, variant, val_out, forwarding_en, registers,
                   transaction_count, last_error>>

\* adin2111_enable_hw_forwarding of adin2111_hybrid.c: read CONFIG2, set
\* cut-through, clear the forward-unknown-to-host bits, write it back
adin2111_enable_hw_forwarding ==
    /\ variant = "hybrid"
    /\ \E res \in {"ok", "read_fail", "write_fail"} :
          /\ CanFail(res = "ok")
          /\ faults' = Faulted(res = "ok")
          /\ IF res = "ok"
             THEN LET val == dev_regs[ADIN1110_CONFIG2]
                      cut == BitOr(val, ADIN2111_PORT_CUT_THRU_EN)
                      p2  == BitClear(cut, ADIN2111_P2_FWD_UNK2HOST)
                  IN  /\ dev_regs' =
                            [dev_regs EXCEPT ![ADIN1110_CONFIG2] =
                                BitClear(p2, ADIN1110_FWD_UNK2HOST)]
                      /\ forwarding_en' = TRUE
                      /\ Returned("enable_hw_forwarding", ADIN1110_CONFIG2, 0)
             ELSE /\ UNCHANGED <<dev_regs, forwarding_en>>
                  /\ Returned("enable_hw_forwarding", ADIN1110_CONFIG2, -EIO)
    /\ UNCHANGED <<netdevvars, qvars, variant, val_out, registers,
                   transaction_count, last_error>>

\* spi_mock_read: an injected error, a register of the mock, or the marker
\* for an address beyond it
spi_mock_read ==
    /\ variant = "mock"
    /\ transaction_count < MaxTransactions
    /\ \E reg \in MockAddrs, ok \in BOOLEAN :
          /\ CanFail(ok)
          /\ faults' = Faulted(ok)
          /\ IF ~ok
             THEN /\ last_error' = "SPI_READ_ERROR"
                  /\ UNCHANGED <<val_out, transaction_count>>
                  /\ Returned("spi_mock_read", reg, -EIO)
             ELSE /\ val_out' = IF reg < MOCK_REGISTERS
                                 THEN registers[reg]
                                 ELSE INVALID_REGISTER_MARKER
                  /\ transaction_count' = transaction_count + 1
                  /\ UNCHANGED last_error
                  /\ Returned("spi_mock_read", reg, 0)
    /\ UNCHANGED <<netdevvars, qvars, variant, dev_regs, forwarding_en, registers>>

\* spi_mock_write: an injected error, or a store when the address is one of
\* the mock's registers
spi_mock_write ==
    /\ variant = "mock"
    /\ transaction_count < MaxTransactions
    /\ \E reg \in MockAddrs, val \in RegValues, ok \in BOOLEAN :
          /\ CanFail(ok)
          /\ faults' = Faulted(ok)
          /\ IF ~ok
             THEN /\ last_error' = "SPI_WRITE_ERROR"
                  /\ UNCHANGED <<registers, transaction_count>>
                  /\ Returned("spi_mock_write", reg, -EIO)
             ELSE /\ registers' = IF reg < MOCK_REGISTERS
                                   THEN [registers EXCEPT ![reg] = val]
                                   ELSE registers
                  /\ transaction_count' = transaction_count + 1
                  /\ UNCHANGED last_error
                  /\ Returned("spi_mock_write", reg, 0)
    /\ UNCHANGED <<netdevvars, qvars, variant, dev_regs, forwarding_en, val_out>>

NextReg ==
    \/ adin2111_read_reg
    \/ adin2111_write_reg
    \/ adin2111_modify_reg
    \/ adin2111_enable_hw_forwarding
    \/ spi_mock_read
    \/ spi_mock_write

SpecReg == InitReg /\ [][NextReg]_vars

\* an RX iteration took the frame out of the RX FIFO
RxTaken == RxIteration /\ rx_frame # 0 /\ rx_frame' = 0
\* a frame was handed to the network stack
RxHanded == sink_cnt' # sink_cnt

XmitCall == adin2111_start_xmit /\ stats' = stats
\* the call stored the frame in the next slot and published the head
XmitStored ==
    /\ tx_head' = U32Inc(tx_head)
    /\ tx_ring' = [tx_ring EXCEPT ![Slot(tx_head)] = next_id]
\* the call returned NETDEV_TX_BUSY and left the ring alone
XmitBusy == busy_seen' /\ UNCHANGED ringvars

(***************************************************************************)
(* C1: for every interleaving of start_xmit and TX worker steps,           *)
(* tx_tail <= tx_head <= tx_tail + TX_RING_SIZE in every state, the        *)
(* indices read as unbounded counters.                                     *)
(***************************************************************************)
C1_RingInvariant ==
    /\ tx_tail <= tx_head
    /\ tx_head <= tx_tail + TX_RING_SIZE

\* the producer has filled the ring after the consumer has taken a frame
C1_Witness ==
    /\ tx_tail > 0
    /\ tx_head - tx_tail = TX_RING_SIZE - 1
    /\ wpc = "write"

(***************************************************************************)
(* C3 as claimed: start_xmit stores the frame whenever                     *)
(* tx_head - tx_tail < TX_RING_SIZE and returns Busy exactly when          *)
(* tx_head - tx_tail >= TX_RING_SIZE.                                      *)
(***************************************************************************)
C3_Original ==
    [][XmitCall =>
         IF U32Dist(tx_head, tx_tail) < TX_RING_SIZE
         THEN XmitStored ELSE XmitBusy]_vars

(***************************************************************************)
(* C3 amended: start_xmit stores the frame whenever                        *)
(* tx_head - tx_tail < TX_RING_SIZE - 1 and returns Busy exactly when      *)
(* tx_head - tx_tail >= TX_RING_SIZE - 1: one slot always stays free, so   *)
(* an empty ring accepts TX_RING_SIZE - 1 frames before the first Busy.    *)
(***************************************************************************)
C3_Amended ==
    [][XmitCall =>
         IF U32Dist(tx_head, tx_tail) < TX_RING_SIZE - 1
         THEN XmitStored ELSE XmitBusy]_vars

\* Busy on a ring that was filled from empty without a single dequeue
C3_Witness ==
    /\ busy_seen
    /\ tx_tail = 0
    /\ tx_head = TX_RING_SIZE - 1

(***************************************************************************)
(* C4: when a transport operation of the TX worker fails for the frame at  *)
(* the head of the queue (the TX_SPACE read included), the worker counts   *)
(* tx_errors, drops the frame and advances past it.                        *)
(***************************************************************************)
C4_ErrorDropsFrame ==
    [][((tx_worker_next \/ tx_worker_write) /\ faults' # faults) =>
          /\ stats'.tx_errors = stats.tx_errors + 1
          /\ tx_tail' = U32Inc(tx_tail)]_vars

(***************************************************************************)
(* C6: every frame is written to the device at most once: each frame that  *)
(* reaches the TX FIFO was accepted later than every frame written before. *)
(***************************************************************************)
C6_AtMostOnce ==
    [][tx_fifo_cnt' # tx_fifo_cnt => tx_fifo_last' > tx_fifo_last]_vars

\* frames were written after a watchdog kick and a failed transaction
C6_Witness ==
    /\ tx_fifo_cnt >= 2
    /\ timeouts = 1
    /\ faults = 1

(***************************************************************************)
(* C7: after start_xmit has returned Busy and the worker has then dequeued *)
(* exactly one entry, netif_wake_queue has been called exactly once.       *)
(***************************************************************************)
C7_RoundTrip ==
    (busy_seen /\ deq_since_busy = 1 /\ wpc \in {"loop", "idle"})
        => wake_since_busy = 1

(***************************************************************************)
(* C8: once the device is stopped, every frame that was freed has been     *)
(* transmitted or counted: skbs freed = tx_packets + tx_errors (less the   *)
(* watchdog's) + tx_dropped.                                               *)
(***************************************************************************)
C8_StopAccounts ==
    spc = "closed" =>
        freed = stats.tx_packets + (stats.tx_errors - timeouts)
                    + stats.tx_dropped

(***************************************************************************)
(* C12: once stop has returned, the RX poll loop runs no further           *)
(* iteration: no register or FIFO transaction and no delivery.  Every      *)
(* iteration starts with the STATUS1 read, so an iteration is a            *)
(* transaction.                                                            *)
(***************************************************************************)
C12_StopQuiesces ==
    [][spc = "closed" => ~RxIteration]_vars

(***************************************************************************)
(* C13: a register call that fails in the transport changes nothing the    *)
(* software can see: the caller's output value, the cached flag, the       *)
(* stored register values and the transaction counter are as they were     *)
(* before the call.                                                        *)
(***************************************************************************)
C13_FailureLeavesState ==
    [][faults' # faults =>
          /\ val_out' = val_out
          /\ forwarding_en' = forwarding_en
          /\ dev_regs' = dev_regs
          /\ registers' = registers
          /\ transaction_count' = transaction_count]_vars

(***************************************************************************)
(* SpecQemu: the QEMU device models behind the SSI bus.  "qemu" is         *)
(* hw/net/adin2111.c driven by the register helpers of the qtest,          *)
(* "qhybrid" is hw/net/adin2111_hybrid.c driven by adin1110_write_reg of   *)
(* the hybrid driver.                                                      *)
(***************************************************************************)
\* C's & on signed 32-bit readings
Low31(a) == IF a < 0 THEN a - INT_MIN ELSE a
And32(a, b) ==
    (IF a < 0 /\ b < 0 THEN INT_MIN ELSE 0) + BitAnd(Low31(a), Low31(b))
\* byte k of a value, least significant first
Byte(v, k) == (v \div (256 ^ k)) % 256
\* a byte shifted to position k of a 32-bit value
Shifted(b, k) ==
    IF k = 3
    THEN (IF b >= 128 THEN b - 256 ELSE b) * (256 ^ 3)
    ELSE b * (256 ^ k)

\* the registers and values the master uses
QReadAddrs == {ADIN2111_REG_SCRATCH, ADIN2111_REG_DEVICE_STATUS,
               ADIN2111_REG_INT_STATUS, ADIN2111_REG_INT_MASK}
QWriteAddrs == {ADIN2111_REG_SCRATCH, ADIN2111_REG_RESET_CTL,
                ADIN2111_REG_INT_STATUS, ADIN2111_REG_INT_MASK}
QVals == {ADIN2111_RESET_SOFT, ADIN2111_INT_RX1}
HWriteAddrs == {ADIN1110_CONFIG2, ADIN1110_STATUS1}
HVals == {ADIN1110_RX_RDY, ADIN2111_PORT_CUT_THRU_EN}

\* the part of ADIN2111State the register file works on
QDev == [regs |-> regs, reset_active |-> reset_active,
         reset_timer |-> reset_timer, int_status |-> int_status,
         int_mask |-> int_mask, cut_through_mode |-> cut_through_mode,
         switch_enabled |-> switch_enabled]

\* adin2111_reg_read; both NICs exist and their links are up
adin2111_reg_read(d, addr) ==
    CASE addr = ADIN2111_REG_CHIP_ID -> CHIP_ID
      [] addr = ADIN2111_REG_DEVICE_STATUS ->
            (IF d.reset_active THEN 0 ELSE ADIN2111_STATUS_READY)
                + ADIN2111_STATUS_LINK1_UP + ADIN2111_STATUS_LINK2_UP
      [] addr = ADIN2111_REG_INT_STATUS -> d.int_status
      [] addr = ADIN2111_REG_INT_MASK -> d.int_mask
      [] addr = ADIN2111_REG_SWITCH_CONFIG ->
            (IF d.cut_through_mode THEN ADIN2111_SWITCH_CUT_THROUGH ELSE 0)
                + (IF d.switch_enabled THEN ADIN2111_SWITCH_ENABLE ELSE 0)
      [] addr \in {ADIN2111_REG_PORT1_STATUS, ADIN2111_REG_PORT2_STATUS} -> 1
      [] OTHER -> IF addr < ADIN2111_REG_COUNT /\ addr \in DOMAIN d.regs
                  THEN d.regs[addr]
                  ELSE 0

\* adin2111_reg_write at time now
adin2111_reg_write(d, addr, val, now) ==
    CASE addr = ADIN2111_REG_SCRATCH -> [d EXCEPT !.regs[addr] = val]
      [] addr = ADIN2111_REG_RESET_CTL ->
            IF And32(val, ADIN2111_RESET_SOFT) # 0
            THEN [d EXCEPT !.reset_active = TRUE,
                           !.reset_timer = now + ADIN2111_RESET_TIME_MS]
            ELSE d
      [] addr = ADIN2111_REG_INT_MASK -> [d EXCEPT !.int_mask = val]
      [] addr = ADIN2111_REG_INT_STATUS ->
            [d EXCEPT !.int_status = BitClear(@, val)]
      [] addr = ADIN2111_REG_SWITCH_CONFIG ->
            [d EXCEPT !.cut_through_mode =
                          And32(val, ADIN2111_SWITCH_CUT_THROUGH) # 0,
                      !.switch_enabled =
                          And32(val, ADIN2111_SWITCH_ENABLE) # 0]
      [] OTHER -> IF addr < ADIN2111_REG_COUNT /\ addr \in DOMAIN d.regs
                  THEN [d EXCEPT !.regs[addr] = val]
                  ELSE d

\* adin2111_transfer of hw/net/adin2111.c: the value returned and the state
\* left behind.  The state machine has no way back from SPI_STATE_DATA.
QemuTransfer(val) ==
    LET same == [ret |-> 0, d |-> QDev, cmd |-> spi_cmd, addr |-> spi_addr,
                 state |-> spi_state]
    IN  IF reset_active
        THEN [same EXCEPT !.ret = -1]
        ELSE CASE spi_state \in {"SPI_STATE_IDLE", "SPI_STATE_CMD"} ->
                    [same EXCEPT !.cmd = val,
                                 !.state = "SPI_STATE_ADDR_HIGH"]
               [] spi_state = "SPI_STATE_ADDR_HIGH" ->
                    [same EXCEPT !.addr = val * 256,
                                 !.state = "SPI_STATE_ADDR_LOW"]
               [] spi_state = "SPI_STATE_ADDR_LOW" ->
                    [same EXCEPT
                        !.addr = BitOr(spi_addr, val),
                        !.state = "SPI_STATE_DATA",
                        !.ret = IF And32(spi_cmd, ADIN2111_SPI_READ) # 0
                                THEN adin2111_reg_read(QDev,
                                                       BitOr(spi_addr, val))
                                ELSE 0]
               [] OTHER ->
                    IF And32(spi_cmd, ADIN2111_SPI_WRITE) # 0
                    THEN [same EXCEPT
                            !.d = adin2111_reg_write(QDev, spi_addr, val,
                                                     clock)]
                    ELSE [same EXCEPT
                            !.ret = adin2111_reg_read(QDev, spi_addr)]

\* adin2111_transfer of hw/net/adin2111_hybrid.c.  spi_addr is a uint16_t
\* that only the device reset clears; an index of 256 or more is beyond
\* regs[]: such a read returns junk, such a write leaves regs[] alone.
HybridTransfer(val, junk) ==
    LET same == [ret |-> 0, regs |-> regs, fwd |-> hardware_forwarding_enabled,
                 cmd |-> spi_cmd, addr |-> spi_addr, state |-> spi_state,
                 oob |-> oob]
    IN  CASE spi_state = "SPI_CMD" ->
                [same EXCEPT !.cmd = val % 256, !.state = "SPI_ADDR"]
          [] spi_state = "SPI_ADDR" ->
                IF spi_addr = 0
                THEN [same EXCEPT !.addr = (val * 256) % 65536]
                ELSE [same EXCEPT !.addr = BitOr(spi_addr, val) % 65536,
                                  !.state = "SPI_DATA"]
          [] spi_state = "SPI_DATA" ->
                IF BitAnd(spi_cmd, 2) # 0
                THEN [same EXCEPT
                        !.regs = IF spi_addr \in DOMAIN regs
                                 THEN [regs EXCEPT ![spi_addr] = val]
                                 ELSE regs,
                        !.oob = oob \/ spi_addr >= HYBRID_REG_COUNT,
                        !.fwd = \/ hardware_forwarding_enabled
                                \/ /\ spi_addr = ADIN1110_CONFIG2
                                   /\ BitAnd(val, ADIN2111_PORT_CUT_THRU_EN)
                                          # 0,
                        !.state = "SPI_IDLE"]
                ELSE [same EXCEPT
                        !.ret = IF spi_addr \in DOMAIN regs
                                THEN regs[spi_addr]
                                ELSE IF spi_addr >= HYBRID_REG_COUNT
                                THEN junk
                                ELSE 0,
                        !.oob = oob \/ spi_addr >= HYBRID_REG_COUNT,
                        !.state = "SPI_IDLE"]
          [] OTHER -> [same EXCEPT !.state = "SPI_CMD"]

\* the words the master clocks out: adin2111_write_reg and adin2111_read_reg
\* of the qtest, adin1110_write_reg of the hybrid driver
MasterBytes(op, addr, val) ==
    IF variant = "qemu"
    THEN IF op = "wr"
         THEN <<0, Byte(addr, 1), Byte(addr, 0),
                Byte(val, 3), Byte(val, 2), Byte(val, 1), Byte(val, 0)>>
         ELSE <<128, Byte(addr, 1), Byte(addr, 0), 0, 0, 0, 0>>
    ELSE <<ADIN1110_CD + ADIN1110_WRITE + Byte(addr, 1), Byte(addr, 0),
           Byte(val, 3), Byte(val, 2), Byte(val, 1), Byte(val, 0)>>

\* the transactions the master may start
MasterOps ==
    IF variant = "qemu"
    THEN {[op |-> "rd", addr |-> a, val |-> 0] : a \in QReadAddrs}
         \cup {[op |-> "wr", addr |-> a, val |-> v] :
                   a \in QWriteAddrs, v \in QVals}
    ELSE {[op |-> "wr", addr |-> a, val |-> v] :
             a \in HWriteAddrs, v \in HVals}

\* the status register of the device
StatusReg == IF variant = "qemu" THEN int_status ELSE regs[ADIN1110_STATUS1]
StatusAddr == IF variant = "qemu" THEN ADIN2111_REG_INT_STATUS
              ELSE ADIN1110_STATUS1

InitQemu ==
    /\ variant \in {"qemu", "qhybrid"}
    /\ InitNetdev
    /\ RingUnused
    /\ FxUnused /\ RxUnused /\ RegUnused
    /\ ProbeUnused
    /\ FwdUnused
    /\ regs = IF variant = "qemu"
              THEN (ADIN2111_REG_CHIP_ID :> CHIP_ID)
                       @@ (ADIN2111_REG_SCRATCH :> 0)
              ELSE (ADIN1110_CONFIG2 :> 0) @@ (ADIN1110_STATUS1 :> 0)
    /\ reset_active = FALSE
    /\ reset_timer = -1
    /\ cut_through_mode = (variant = "qemu")
    /\ switch_enabled = (variant = "qemu")
    /\ spi_cmd = 0
    /\ spi_addr = 0
    /\ spi_state = IF variant = "qemu" THEN "SPI_STATE_IDLE" ELSE "SPI_IDLE"
    /\ int_status = 0
    /\ int_mask = 0
    /\ irq = FALSE
    /\ hardware_forwarding_enabled = FALSE
    /\ oob = FALSE
    /\ clock = 0
    /\ xfer = NoXfer
    /\ spi_done = NoDone
    /\ reset_written = -1

\* one word on the bus: the master sends the next word of its transaction
\* (starting one when none is in progress), the device's adin2111_transfer
\* answers; the qtest's read helper assembles the four data bytes
spi_transfer ==
    /\ variant \in {"qemu", "qhybrid"}
    /\ \E t \in MasterOps, junk \in HVals :
          /\ xfer.pos # 0 => /\ t.op = xfer.op /\ t.addr = xfer.addr
                             /\ t.val = xfer.val
          /\ variant = "qemu" => junk = ADIN1110_RX_RDY
          /\ LET seq == MasterBytes(t.op, t.addr, t.val)
                 n   == xfer.pos + 1
                 st0 == IF xfer.pos = 0 THEN StatusReg ELSE xfer.st0
                 q   == QemuTransfer(seq[n])
                 h   == HybridTransfer(seq[n], junk)
                 ret == IF variant = "qemu" THEN q.ret ELSE h.ret
                 acc == IF t.op = "rd" /\ n >= 4
                        THEN xfer.acc + Shifted(ret % 256, 7 - n)
                        ELSE xfer.acc
             IN  /\ IF variant = "qemu"
                    THEN /\ regs' = q.d.regs
                         /\ reset_active' = q.d.reset_active
                         /\ reset_timer' = q.d.reset_timer
                         /\ int_status' = q.d.int_status
                         /\ int_mask' = q.d.int_mask
                         /\ cut_through_mode' = q.d.cut_through_mode
                         /\ switch_enabled' = q.d.switch_enabled
                         /\ spi_cmd' = q.cmd
                         /\ spi_addr' = q.addr
                         /\ spi_state' = q.state
                         /\ UNCHANGED <<hardware_forwarding_enabled, oob>>
                    ELSE /\ regs' = h.regs
                         /\ hardware_forwarding_enabled' = h.fwd
                         /\ oob' = h.oob
                         /\ spi_cmd' = h.cmd
                         /\ spi_addr' = h.addr
                         /\ spi_state' = h.state
                         /\ UNCHANGED <<reset_active, reset_timer,
                                        int_status, int_mask,
                                        cut_through_mode, switch_enabled>>
                 /\ IF n = Len(seq)
                    THEN /\ xfer' = NoXfer
                         /\ spi_done' = [op |-> t.op, addr |-> t.addr,
                                         val |-> t.val, ret |-> acc]
                         /\ reset_written' =
                               IF /\ t.op = "wr"
                                  /\ t.addr = ADIN2111_REG_RESET_CTL
                                  /\ And32(t.val, ADIN2111_RESET_SOFT) # 0
                                  /\ variant = "qemu"
                               THEN clock
                               ELSE reset_written
                    ELSE /\ xfer' = [op |-> t.op, addr |-> t.addr,
                                     val |-> t.val, pos |-> n, acc |-> acc,
                                     st0 |-> st0]
                         /\ UNCHANGED <<spi_done, reset_written>>
    /\ UNCHANGED <<netdevvars, regvars, variant, faults, clock, irq>>

\* qemu_irq_raise(s->irq) when a masked-in status bit is set; nothing in
\* either device model lowers the line
IrqRaise(status, mask) == irq \/ And32(status, mask) # 0

\* adin2111_receive of hw/net/adin2111.c between two transactions: a frame
\* arrives at a port; during reset it is dropped
adin2111_receive ==
    /\ variant = "qemu"
    /\ xfer.pos = 0
    /\ ~reset_active
    /\ \E port \in {0, 1} :
          int_status' = BitOr(int_status, IF port = 0 THEN ADIN2111_INT_RX1
                                          ELSE ADIN2111_INT_RX2)
    /\ irq' = IrqRaise(int_status', int_mask)
    /\ UNCHANGED <<netdevvars, regvars, variant, faults, regs, reset_active,
                   reset_timer, cut_through_mode, switch_enabled, int_mask,
                   hardware_forwarding_enabled, qspivars, oob, clock, xfer,
                   spi_done, reset_written>>

\* adin2111_phy_receive of hw/net/adin2111_hybrid.c between two
\* transactions: the port's RX-ready bit of STATUS1 is set
adin2111_phy_receive ==
    /\ variant = "qhybrid"
    /\ xfer.pos = 0
    /\ \E port \in {0, 1} :
          regs' = [regs EXCEPT ![ADIN1110_STATUS1] =
                      BitOr(@, IF port = 0 THEN ADIN1110_RX_RDY
                               ELSE ADIN2111_P2_RX_RDY)]
    /\ UNCHANGED <<netdevvars, regvars, variant, faults, reset_active,
                   reset_timer, cut_through_mode, switch_enabled, int_status,
                   int_mask, hardware_forwarding_enabled, qspivars, oob,
                   clock, xfer, spi_done, reset_written, irq>>

\* qtest_clock_step between two transactions: the virtual clock advances
\* and an expired reset timer runs adin2111_reset_timer_cb
qtest_clock_step ==
    /\ variant = "qemu"
    /\ xfer.pos = 0
    /\ clock + ClockStep <= MaxClock
    /\ clock' = clock + ClockStep
    /\ IF reset_timer # -1 /\ reset_timer <= clock'
       THEN /\ reset_active' = FALSE
            /\ reset_timer' = -1
            /\ int_status' = BitOr(int_status, ADIN2111_INT_READY)
            /\ irq' = IrqRaise(int_status', int_mask)
       ELSE UNCHANGED <<reset_active, reset_timer, int_status, irq>>
    /\ UNCHANGED <<netdevvars, regvars, variant, faults, regs,
                   cut_through_mode, switch_enabled, int_mask,
                   hardware_forwarding_enabled, qspivars, oob, xfer,
                   spi_done, reset_written>>

NextQemu ==
    \/ spi_transfer
    \/ adin2111_receive
    \/ adin2111_phy_receive
    \/ qtest_clock_step

SpecQemu == InitQemu /\ [][NextQemu]_vars

\* the step is a register call with an address outside the register space
\* of the layer it goes through
OutsideCall ==
    \/ /\ reg_call'.fn \in {"read_reg", "write_reg", "modify_reg"}
       /\ reg_call'.reg > max_register
    \/ /\ reg_call'.fn \in {"spi_mock_read", "spi_mock_write"}
       /\ reg_call'.reg >= MOCK_REGISTERS

(***************************************************************************)
(* C14: a read or write of an address outside the declared register space  *)
(* is rejected: the call returns an error, and no stored register value    *)
(* changes.                                                                *)
(***************************************************************************)
C14_OutsideRejected ==
    [][OutsideCall =>
          /\ reg_call'.ret # 0
          /\ dev_regs' = dev_regs
          /\ registers' = registers]_vars

\* the step completes the master's transaction
XferDone(op, addrs) ==
    /\ xfer.pos # 0
    /\ xfer'.pos = 0
    /\ xfer.op = op
    /\ xfer.addr \in addrs

(***************************************************************************)
(* C15: a write of V to a status register clears the status bits that are  *)
(* 1 in V and leaves the other bits as they were when the write began; no  *)
(* bit is set and the register is not replaced.                            *)
(***************************************************************************)
C15_WriteOneToClear ==
    [][XferDone("wr", {StatusAddr}) =>
          StatusReg' = BitClear(xfer.st0, xfer.val)]_vars

(***************************************************************************)
(* C16: once the soft-reset bit has been written to the reset-control      *)
(* register, a DEVICE_STATUS read over SPI returns READY = 0 while less    *)
(* than 50 ms have passed since the write and READY = 1 once more than     *)
(* 50 ms have passed.                                                      *)
(***************************************************************************)
C16_ResetReady ==
    [][(XferDone("rd", {ADIN2111_REG_DEVICE_STATUS}) /\ reset_written # -1) =>
          LET ready == And32(spi_done'.ret, ADIN2111_STATUS_READY) # 0
          IN  /\ clock - reset_written < ADIN2111_RESET_TIME_MS => ~ready
              /\ clock - reset_written > ADIN2111_RESET_TIME_MS => ready]_vars

(***************************************************************************)
(* C17: a SPI write of V to the scratch register or the interrupt-mask     *)
(* register followed by a SPI read of the same register returns V, for     *)
(* every transaction of a run and not only the first.                      *)
(***************************************************************************)
C17_WriteReadBack ==
    [][(/\ XferDone("rd", {ADIN2111_REG_SCRATCH, ADIN2111_REG_INT_MASK})
        /\ spi_done.op = "wr"
        /\ spi_done.addr = xfer.addr) =>
          spi_done'.ret = spi_done.val]_vars


(***************************************************************************)
(* SpecProbe: drivers/net/ethernet/adi/adin2111/adin2111.c, the driver's   *)
(* initialisation: adin2111_probe, adin2111_hw_init, adin2111_soft_reset,  *)
(* adin2111_configure_switch_mode, and the netdev of                       *)
(* adin2111_netdev_correct.c that the probe registers.  A register of the  *)
(* device is the set of its bits that are set.                             *)
(***************************************************************************)
ETIMEDOUT == 110
ENOMEM == 12
\* msecs_to_jiffies(ADIN2111_RESET_TIMEOUT_MS)
ResetTimeoutJiffies == 3

\* the registers the initialisation touches, at their reset values
ChipDefaults == [r \in {"RESET", "CONFIG0", "CONFIG2", "PORT_FUNCT", "IMASK1"}
                   |-> {}]
\* the bits of STATUS1 / IMASK1 the initialisation tells apart
Status1Bits == {"RX_RDY", "P1_RX_RDY", "P2_RX_RDY", "other"}
PdataValues == [switch_mode : BOOLEAN, cut_through : BOOLEAN,
                crc_append : BOOLEAN, port1_enabled : BOOLEAN,
                port2_enabled : BOOLEAN, tx_fcs_validation : BOOLEAN]

\* time_before(a, b)
TimeBefore_never(a, b) == TRUE
TimeBefore(a, b) == a < b

\* "if (ret)" on the result of adin2111_hw_init in adin2111_probe
HwInitFailed_ignored(ret) == FALSE
HwInitFailed(ret) == ret # 0

\* the values adin2111_hw_init and adin2111_configure_switch_mode compute
Config0Value == {"SYNC", "TXCTE", "RXCTE"}
                  \cup (IF pdata.tx_fcs_validation THEN {"TXFCSVE"} ELSE {})
Config2Value(config2) ==
    LET cut == IF pdata.cut_through
               THEN config2 \cup {"PORT_CUT_THRU_EN"}
               ELSE config2 \ {"PORT_CUT_THRU_EN"}
    IN IF pdata.crc_append THEN cut \cup {"CRC_APPEND"}
                           ELSE cut \ {"CRC_APPEND"}
PortFuncValue ==
    (IF ~pdata.port1_enabled THEN {"BC_DIS_P1", "MC_DIS_P1"} ELSE {})
      \cup (IF ~pdata.port2_enabled THEN {"BC_DIS_P2", "MC_DIS_P2"} ELSE {})
IrqMask == {"RX_RDY"} \cup (IF pdata.switch_mode
                            THEN {"P1_RX_RDY", "P2_RX_RDY"} ELSE {})

\* the register writes of a complete adin2111_hw_init, in program order
ConfigSequence ==
    IF pdata.switch_mode
    THEN <<"CONFIG0", "CONFIG2", "PORT_FUNCT", "IMASK1", "CLEAR0", "CLEAR1",
           "FIFO_CLR">>
    ELSE <<"CONFIG0", "IMASK1", "CLEAR0", "CLEAR1", "FIFO_CLR">>

\* what a probe step leaves alone
proberest == <<ringvars, carrier_ok, workvars, xmitvars, lock, stats, fifovars,
               link_bit, xmit_bus_ops, next_id, freed, timeouts, rtvars,
               variant, regvars, qvars, fxvars, rxvars, fwdvars>>
pipevars == <<rx_thread_running, link_work_pending, queue_stopped, up, spc>>

InitProbe ==
    /\ variant = "correct"
    /\ InitNetdev
    /\ RingUnused
    /\ FxUnused /\ RxUnused /\ RegUnused
    /\ QemuUnused
    /\ FwdUnused
    /\ ppc = "probe"
    /\ hw_ret = 0
    /\ probe_ret = 0
    /\ jiffies = 0
    /\ timeout = 0
    /\ pdata = NoPdata
    /\ chip = ChipDefaults
    /\ in_reset = FALSE
    /\ written = <<>>
    /\ registered = FALSE

\* adin2111_probe up to the call of adin2111_hw_init: devm_kzalloc,
\* adin2111_parse_dt (no device-tree node leaves the zeroed pdata), and
\* adin2111_hw_reset, whose result is ignored
adin2111_probe ==
    /\ ppc = "probe"
    /\ \E ok \in BOOLEAN, np \in BOOLEAN, dt \in PdataValues :
          /\ CanFail(ok)
          /\ faults' = Faulted(ok)
          /\ IF ok
             THEN /\ pdata' = IF np THEN dt ELSE NoPdata
                  /\ ppc' = "reset_write"
                  /\ UNCHANGED probe_ret
             ELSE /\ probe_ret' = -ENOMEM
                  /\ ppc' = "returned"
                  /\ UNCHANGED pdata
    /\ UNCHANGED <<proberest, pipevars, hw_ret, jiffies, timeout, chip,
                   in_reset, written, registered>>

\* a register access of adin2111_hw_init that failed: hw_init returns ret
HwInitReturns(ret) == hw_ret' = ret /\ ppc' = "hw_init_ret"

\* adin2111_soft_reset: the write of SWRESET, and the deadline
soft_reset_write ==
    /\ ppc = "reset_write"
    /\ \E ok \in BOOLEAN :
          /\ CanFail(ok)
          /\ faults' = Faulted(ok)
          /\ IF ok
             THEN /\ chip' = [chip EXCEPT !["RESET"] = {"SWRESET"}]
                  /\ in_reset' = TRUE
                  /\ timeout' = jiffies + ResetTimeoutJiffies
                  /\ ppc' = "reset_read"
                  /\ UNCHANGED hw_ret
             ELSE /\ HwInitReturns(-EIO)
                  /\ UNCHANGED <<chip, in_reset, timeout>>
    /\ UNCHANGED <<proberest, pipevars, probe_ret, jiffies, pdata, written,
                   registered>>

\* adin2111_soft_reset: one read of RESET in the do-while loop
soft_reset_read ==
    /\ ppc = "reset_read"
    /\ \E ok \in BOOLEAN :
          /\ CanFail(ok)
          /\ faults' = Faulted(ok)
          /\ IF ~ok
             THEN HwInitReturns(-EIO)
             ELSE /\ UNCHANGED hw_ret
                  /\ ppc' = IF "SWRESET" \notin chip["RESET"]
                            THEN "config0" ELSE "reset_sleep"
    /\ UNCHANGED <<proberest, pipevars, probe_ret, jiffies, timeout, pdata,
                   chip, in_reset, written, registered>>

\* adin2111_soft_reset: usleep_range, then the loop condition
soft_reset_wait ==
    /\ ppc = "reset_sleep"
    /\ IF TimeBefore(jiffies, timeout)
       THEN ppc' = "reset_read" /\ UNCHANGED hw_ret
       ELSE HwInitReturns(-ETIMEDOUT)
    /\ UNCHANGED <<proberest, pipevars, faults, probe_ret, jiffies, timeout,
                   pdata, chip, in_reset, written, registered>>

\* a timer tick while the reset is polled (later ticks change nothing the
\* loop can tell apart)
jiffies_tick ==
    /\ ppc \in {"reset_read", "reset_sleep"}
    /\ jiffies <= timeout
    /\ jiffies' = jiffies + 1
    /\ UNCHANGED <<proberest, pipevars, faults, ppc, hw_ret, probe_ret,
                   timeout, pdata, chip, in_reset, written, registered>>

\* the device finishes its soft reset: registers at their reset values,
\* SWRESET reads as 0 again
dev_reset_complete ==
    /\ ppc # "none"
    /\ in_reset
    /\ chip' = ChipDefaults
    /\ in_reset' = FALSE
    /\ written' = <<>>
    /\ UNCHANGED <<proberest, pipevars, faults, ppc, hw_ret, probe_ret,
                   jiffies, timeout, pdata, registered>>

\* one adin2111_write_reg of adin2111_hw_init: on success the device holds
\* the value and the code goes on at next
HwInitWrite(reg, val, next) ==
    /\ \E ok \in BOOLEAN :
          /\ CanFail(ok)
          /\ faults' = Faulted(ok)
          /\ IF ok
             THEN /\ chip' = IF reg \in DOMAIN chip
                             THEN [chip EXCEPT ![reg] = val] ELSE chip
                  /\ written' = Append(written, reg)
                  /\ ppc' = next
                  /\ UNCHANGED hw_ret
             ELSE /\ HwInitReturns(-EIO)
                  /\ UNCHANGED <<chip, written>>
    /\ UNCHANGED <<proberest, pipevars, probe_ret, jiffies, timeout, pdata,
                   in_reset, registered>>

hw_init_config0 ==
    /\ ppc = "config0"
    /\ HwInitWrite("CONFIG0", Config0Value,
                   IF pdata.switch_mode THEN "config2" ELSE "imask1")

\* adin2111_configure_switch_mode: read CONFIG2, write it back changed
configure_switch_mode_config2 ==
    /\ ppc = "config2"
    /\ \E rd \in BOOLEAN, wr \in BOOLEAN :
          /\ CanFail(rd /\ wr)
          /\ rd \/ wr          \* the write is issued only after a good read
          /\ faults' = Faulted(rd /\ wr)
          /\ IF rd /\ wr
             THEN /\ chip' = [chip EXCEPT
                                 !["CONFIG2"] = Config2Value(chip["CONFIG2"])]
                  /\ written' = Append(written, "CONFIG2")
                  /\ ppc' = "port_funct"
                  /\ UNCHANGED hw_ret
             ELSE /\ HwInitReturns(-EIO)
                  /\ UNCHANGED <<chip, written>>
    /\ UNCHANGED <<proberest, pipevars, probe_ret, jiffies, timeout, pdata,
                   in_reset, registered>>

configure_switch_mode_port_funct ==
    /\ ppc = "port_funct"
    /\ HwInitWrite("PORT_FUNCT", PortFuncValue, "imask1")

hw_init_imask1 ==
    /\ ppc = "imask1"
    /\ HwInitWrite("IMASK1", Status1Bits \ IrqMask, "clear0")

hw_init_clear0 ==
    /\ ppc = "clear0"
    /\ HwInitWrite("CLEAR0", {}, "clear1")

hw_init_clear1 ==
    /\ ppc = "clear1"
    /\ HwInitWrite("CLEAR1", {}, "fifo_clr")

hw_init_fifo_clr ==
    /\ ppc = "fifo_clr"
    /\ HwInitWrite("FIFO_CLR", {}, "hw_init_ok")

\* adin2111_hw_init returns 0
hw_init_return ==
    /\ ppc = "hw_init_ok"
    /\ hw_ret' = 0
    /\ ppc' = "hw_init_ret"
    /\ UNCHANGED <<proberest, pipevars, faults, probe_ret, jiffies, timeout,
                   pdata, chip, in_reset, written, registered>>

\* adin2111_probe: the check of adin2111_hw_init's result
probe_hw_init_ret ==
    /\ ppc = "hw_init_ret"
    /\ IF HwInitFailed(hw_ret)
       THEN probe_ret' = hw_ret /\ ppc' = "returned"
       ELSE ppc' = "phy_init" /\ UNCHANGED probe_ret
    /\ UNCHANGED <<proberest, pipevars, faults, hw_ret, jiffies, timeout,
                   pdata, chip, in_reset, written, registered>>

\* adin2111_probe: adin2111_phy_init
probe_phy_init ==
    /\ ppc = "phy_init"
    /\ \E ok \in BOOLEAN :
          /\ CanFail(ok)
          /\ faults' = Faulted(ok)
          /\ IF ok
             THEN ppc' = "register" /\ UNCHANGED probe_ret
             ELSE probe_ret' = -EIO /\ ppc' = "returned"
    /\ UNCHANGED <<proberest, pipevars, hw_ret, jiffies, timeout, pdata, chip,
                   in_reset, written, registered>>

\* adin2111_probe: adin2111_create_netdev and register_netdev, for each
\* enabled port in switch mode
probe_register ==
    /\ ppc = "register"
    /\ \E ok \in BOOLEAN :
          /\ CanFail(ok)
          /\ faults' = Faulted(ok)
          /\ IF ok
             THEN /\ registered' = (~pdata.switch_mode \/ pdata.port1_enabled
                                      \/ pdata.port2_enabled)
                  /\ ppc' = "request_irq"
                  /\ UNCHANGED probe_ret
             ELSE /\ probe_ret' = -ENOMEM
                  /\ ppc' = "returned"
                  /\ UNCHANGED registered
    /\ UNCHANGED <<proberest, pipevars, hw_ret, jiffies, timeout, pdata, chip,
                   in_reset, written>>

\* adin2111_probe: devm_request_threaded_irq; on failure unregister_netdev,
\* which closes an interface that is up
probe_request_irq ==
    /\ ppc = "request_irq"
    /\ xpc = "idle" /\ spc # "cancel"
    /\ \E ok \in BOOLEAN :
          /\ CanFail(ok)
          /\ faults' = Faulted(ok)
          /\ IF ok
             THEN /\ probe_ret' = 0
                  /\ UNCHANGED <<registered, pipevars>>
             ELSE /\ probe_ret' = -EIO
                  /\ registered' = FALSE
                  /\ up' = FALSE
                  /\ queue_stopped' = TRUE
                  /\ rx_thread_running' = FALSE
                  /\ link_work_pending' = FALSE
                  /\ spc' = IF up THEN "closed" ELSE spc
    /\ ppc' = "returned"
    /\ UNCHANGED <<proberest, hw_ret, jiffies, timeout, pdata, chip, in_reset,
                   written>>

\* the core calls ndo_open and ndo_stop of a registered netdev only
dev_open ==
    /\ registered
    /\ adin2111_open

dev_close ==
    /\ registered
    /\ adin2111_stop

dev_close_drain ==
    /\ registered
    /\ adin2111_stop_drain

NextProbe ==
    \/ adin2111_probe
    \/ soft_reset_write
    \/ soft_reset_read
    \/ soft_reset_wait
    \/ jiffies_tick
    \/ dev_reset_complete
    \/ hw_init_config0
    \/ configure_switch_mode_config2
    \/ configure_switch_mode_port_funct
    \/ hw_init_imask1
    \/ hw_init_clear0
    \/ hw_init_clear1
    \/ hw_init_fifo_clr
    \/ hw_init_return
    \/ probe_hw_init_ret
    \/ probe_phy_init
    \/ probe_register
    \/ probe_request_irq
    \/ dev_open
    \/ dev_close
    \/ dev_close_drain

SpecProbe == InitProbe /\ [][NextProbe]_vars

\* the probing thread is scheduled and the timer interrupt keeps ticking
ProbeThread ==
    \/ soft_reset_write
    \/ soft_reset_read
    \/ soft_reset_wait

SpecProbeFair ==
    /\ InitProbe
    /\ [][NextProbe]_vars
    /\ WF_vars(ProbeThread)
    /\ WF_vars(jiffies_tick)


\* the reset poll of adin2111_soft_reset is in progress
Polling == ppc \in {"reset_read", "reset_sleep"}

(***************************************************************************)
(* C18: if the device never reports reset completion, the reset procedure  *)
(* terminates within the configured timeout and returns -ETIMEDOUT; it     *)
(* never polls indefinitely.  With no transport failure: a reset that      *)
(* returns while the device is still resetting returns -ETIMEDOUT, the     *)
(* loop starts another read only before the deadline and gives up only at  *)
(* or after it, and while the device stays in reset the poll ends with     *)
(* -ETIMEDOUT.                                                             *)
(***************************************************************************)
C18_ResetTerminates ==
    /\ []((ppc = "hw_init_ret" /\ in_reset /\ faults = 0)
             => hw_ret = -ETIMEDOUT)
    /\ [][/\ (ppc = "reset_sleep" /\ ppc' = "reset_read") => jiffies < timeout
          /\ (ppc = "reset_sleep" /\ ppc' = "hw_init_ret")
                => (jiffies >= timeout /\ hw_ret' = -ETIMEDOUT)]_vars
    /\ (Polling /\ [](in_reset /\ faults = 0))
          ~> (ppc = "hw_init_ret" /\ hw_ret = -ETIMEDOUT)
    /\ Polling ~> ~Polling

C18_Witness ==
    /\ ppc = "returned" /\ probe_ret = -ETIMEDOUT /\ in_reset /\ faults = 0
    /\ jiffies >= timeout /\ timeout = ResetTimeoutJiffies

\* the device has completed its reset and the whole configuration of
\* adin2111_hw_init has been written to it since
Ready == ~in_reset /\ written = ConfigSequence

\* the TX queue, the RX thread or the link poll of the port is started
PipelinesStarted ==
    up \/ rx_thread_running \/ link_work_pending \/ ~queue_stopped

DeviceCfg == [cut_through |-> "PORT_CUT_THRU_EN" \in chip["CONFIG2"],
              crc_append |-> "CRC_APPEND" \in chip["CONFIG2"],
              port1_enabled |-> "BC_DIS_P1" \notin chip["PORT_FUNCT"],
              port2_enabled |-> "BC_DIS_P2" \notin chip["PORT_FUNCT"]]
OldCfg == [cut_through |-> FALSE, crc_append |-> FALSE,
           port1_enabled |-> TRUE, port2_enabled |-> TRUE]
NewCfg == [cut_through |-> pdata.cut_through, crc_append |-> pdata.crc_append,
           port1_enabled |-> pdata.port1_enabled,
           port2_enabled |-> pdata.port2_enabled]

(***************************************************************************)
(* C20: whether the sequence of configuration writes completes or is       *)
(* aborted after any prefix, the device never holds a mix of old and new   *)
(* settings that is a configuration different from both.                   *)
(***************************************************************************)
C20_NoMixedConfig ==
    (ppc \notin {"none", "probe"} /\ pdata.switch_mode)
        => DeviceCfg \in {OldCfg, NewCfg}


(***************************************************************************)
(* SpecFwd: the MAC learning table and the forwarding decision.            *)
(*   "qhybrid"  qemu/hw/net/adin2111_hybrid.c: a direct-mapped table of    *)
(*              MAC_TABLE_SIZE entries, adin2111_forward_packet,           *)
(*              adin2111_host_receive                                      *)
(*   "qemu"     qemu/hw/net/adin2111.c: adin2111_receive                   *)
(*   "hybrid"   drivers/.../adin2111_hybrid.c: a hash table of chained     *)
(*              entries, adin2111_learn_mac, adin2111_lookup_mac_port      *)
(* The QEMU clock is counted in ms (MAC_AGE_TIME_NS is 300000 ms); jiffies *)
(* keep the 32 bits of an unsigned long of the 32-bit ARM target.          *)
(***************************************************************************)
MAC_TABLE_SIZE == 256
HZ == 100
MAC_AGE_TIME == 5 * HZ * 60
MAC_AGE_TIME_MS == 5 * 60 * 1000
\* clock steps over one run
MaxAdvances == 2
\* 2^30 jiffies; the long step of the clock is three of them
BigStep == 2^30

\* the addresses of the model: MacA and MacB have the same mac_hash
MacA == <<2, 0, 0, 0, 0, 33>>
MacB == <<2, 0, 0, 0, 1, 0>>
MacC == <<2, 0, 0, 0, 0, 7>>
Broadcast == <<255, 255, 255, 255, 255, 255>>
Multicast == <<1, 0, 94, 0, 0, 1>>
Unicast == {MacA, MacB, MacC}
\* the addresses the driver's table is followed for
DrvAddrs == {MacA, MacB}
\* the destinations of the frames of the model
DstAddrs == {MacA, Broadcast, Multicast}
PhyPorts == {0, 1}

is_broadcast_ether_addr(addr) == \A i \in 1..6 : addr[i] = 255
is_multicast_ether_addr(addr) == addr[1] % 2 = 1

\* mac_hash: hash = (hash << 5) + hash + mac[i] on a uint32_t, then
\* % MAC_TABLE_SIZE; the low 8 bits of each step depend on the low 8 bits
\* of the one before only
RECURSIVE MacHashFrom(_, _, _)
MacHashFrom(hash, mac, i) ==
    IF i > 6 THEN hash
    ELSE MacHashFrom((hash * 32 + hash + mac[i]) % MAC_TABLE_SIZE, mac, i + 1)
mac_hash(mac) == MacHashFrom(0, mac, 1) % MAC_TABLE_SIZE

\* the entries of mac_table[] the model's addresses use, after memset
Slots == {mac_hash(a) : a \in Unicast}
NoEntry == [addr |-> <<0, 0, 0, 0, 0, 0>>, port |-> 0, timestamp |-> 0,
            valid |-> FALSE]

\* the time after which an entry has aged, in the variant's clock
AgeTime == IF variant = "hybrid" THEN MAC_AGE_TIME ELSE MAC_AGE_TIME_MS
AgeCap == AgeTime + 1

\* adin2111_learn_mac of the QEMU model
qemu_learn_mac_keep(tbl, mac, port, now) ==
    IF tbl[mac_hash(mac)].valid /\ tbl[mac_hash(mac)].addr = mac
    THEN tbl
    ELSE [tbl EXCEPT ![mac_hash(mac)] =
             [addr |-> mac, port |-> port, timestamp |-> now, valid |-> TRUE]]
qemu_learn_mac(tbl, mac, port, now) ==
    [tbl EXCEPT ![mac_hash(mac)] =
        [addr |-> mac, port |-> port, timestamp |-> now, valid |-> TRUE]]

\* adin2111_lookup_mac of the QEMU model: the port or -1, and the table it
\* leaves
adin2111_lookup_mac(tbl, mac, now) ==
    LET entry == tbl[mac_hash(mac)]
    IN  IF ~entry.valid
        THEN [ret |-> -1, tbl |-> tbl]
        ELSE IF entry.addr # mac
        THEN [ret |-> -1, tbl |-> tbl]
        ELSE IF now - entry.timestamp > MAC_AGE_TIME_MS
        THEN [ret |-> -1,
              tbl |-> [tbl EXCEPT ![mac_hash(mac)].valid = FALSE]]
        ELSE [ret |-> entry.port, tbl |-> tbl]

\* tbl_ops: the ports of the learns of MacA made in a row with no other
\* table operation since, what the last table operation was and, for a
\* lookup of MacA: the port it returned, the learns right before it and
\* whether MacA had aged
NoOps == [run |-> <<>>, last |-> "none", port |-> -1, before |-> <<>>,
          aged |-> FALSE]
LastTwo(seq) == IF Len(seq) > 2 THEN SubSeq(seq, Len(seq) - 1, Len(seq))
                ELSE seq
OpLearn(ops, mac, port) ==
    [NoOps EXCEPT !.run = IF mac = MacA THEN LastTwo(Append(ops.run, port))
                          ELSE <<>>,
                  !.last = "learn"]
OpLookup(ops, ages, ret) ==
    [run |-> <<>>, last |-> IF ret < 0 THEN "miss" ELSE "hit", port |-> ret,
     before |-> ops.run, aged |-> ages.age > AgeTime]

\* adin2111_forward_packet: the ports the frame is sent to, the table left
\* behind and the table operations made, in order
adin2111_forward_packet(fwd_en, tbl, src_port, src, dst, now) ==
    LET other == IF src_port = 0 THEN 1 ELSE 0
        learned == qemu_learn_mac(tbl, src, src_port, now)
        lk == adin2111_lookup_mac(learned, dst, now)
    IN  IF ~fwd_en
        THEN [targets |-> {}, tbl |-> tbl, ops |-> <<>>, ret |-> -1]
        ELSE IF is_broadcast_ether_addr(dst) \/ is_multicast_ether_addr(dst)
        THEN [targets |-> {other} \cap PhyPorts, tbl |-> learned,
              ops |-> <<"learn">>, ret |-> -1]
        ELSE [targets |-> IF lk.ret < 0 THEN {other} \cap PhyPorts
                          ELSE IF lk.ret = src_port THEN {}
                          ELSE {lk.ret} \cap PhyPorts,
              tbl |-> lk.tbl, ops |-> <<"learn", "lookup">>, ret |-> lk.ret]

\* adin2111_receive of hw/net/adin2111.c: the ports the frame is forwarded
\* to; cut-through halves the latency
QemuTargets_cut(d, port) ==
    IF d.switch_enabled /\ d.cut_through_mode /\ (1 - port) \in PhyPorts
    THEN {1 - port} ELSE {}
QemuTargets(d, port) ==
    IF d.switch_enabled /\ (1 - port) \in PhyPorts THEN {1 - port} ELSE {}

\* age_sat: the time since MacA, the address the model looks up, was last
\* learned (-1: never; it stops counting at AgeCap) and the port it was
\* learned on; Aged is age_sat after a step of d
Aged(ages, d) ==
    IF ages.age = -1 THEN ages
    ELSE IF d >= AgeCap \/ ages.age + d >= AgeCap
    THEN [ages EXCEPT !.age = AgeCap]
    ELSE [ages EXCEPT !.age = @ + d]
\* a learn of mac on port
Fresh(ages, mac, port) ==
    IF mac = MacA THEN [age |-> 0, port |-> port] ELSE ages

\* jiffies + d and the signed difference a - b, on 32 bits
U32Add(a, d) == IF a > INT_MAX - d THEN (a - INT_MAX - 1) + (d - INT_MAX - 1)
                ELSE a + d
S32Sub(a, b) ==
    IF b >= 0
    THEN IF a >= INT_MIN + b THEN a - b
         ELSE (a + INT_MAX + 1) + ((INT_MAX - b) + 1)
    ELSE IF a <= INT_MAX + b THEN a - b
         ELSE (a - INT_MAX - 1) - (b + INT_MAX + 1)
\* time_after(a, b): (long)((b) - (a)) < 0
time_after(a, b) == S32Sub(b, a) < 0

InitFwd ==
    /\ spi_msgs = <<>>
    /\ tx_pending = 0
    /\ mii_bus = FALSE
    /\ task = <<>>
    /\ priv_tx_space = 0
    /\ variant \in {"qhybrid", "qemu", "hybrid"}
    /\ InitNetdev
    /\ RingUnused
    /\ FxUnused /\ RxUnused /\ RegUnused
    /\ ProbeUnused
    /\ regs = <<>>
    /\ reset_active = FALSE
    /\ reset_timer = -1
    /\ cut_through_mode = (variant = "qemu")
    /\ switch_enabled = (variant = "qemu")
    /\ spi_cmd = 0
    /\ spi_addr = 0
    /\ spi_state = IF variant = "qhybrid" THEN "SPI_IDLE" ELSE "SPI_STATE_IDLE"
    /\ int_status = 0
    /\ int_mask = 0
    /\ irq = FALSE
    /\ single_interface_mode \in (IF variant = "qemu" THEN {FALSE} ELSE BOOLEAN)
    /\ hardware_forwarding_enabled =
          (variant = "qhybrid" /\ single_interface_mode)
    /\ oob = FALSE
    /\ clock = 0
    /\ xfer = NoXfer
    /\ spi_done = NoDone
    /\ reset_written = -1
    /\ mac_table = IF variant = "qhybrid" THEN [i \in Slots |-> NoEntry]
                   ELSE IF variant = "hybrid" THEN [b \in {0, 1} |-> <<>>]
                   ELSE <<>>
    /\ bucket_of \in (IF variant = "hybrid"
                      THEN {b \in [DrvAddrs -> {0, 1}] : b[MacA] = 0}
                      ELSE {<<>>})
    /\ tbl_ops = NoOps
    /\ age_sat = [age |-> -1, port |-> 0]
    /\ fwd_last = NoFwd
    /\ advances = 0
    /\ codec = NoCodec

\* what a step of the QEMU models leaves alone
fwdrest0 == <<ringonly, fxvars, rxvars, queue_stopped, up, stats, fifovars,
             xmit_bus_ops, next_id, freed, busy_seen, initvars, regvars,
             variant, faults, regs, reset_active, reset_timer,
             cut_through_mode, switch_enabled, int_mask,
             hardware_forwarding_enabled, qspivars, oob, xfer, spi_done,
             reset_written, single_interface_mode, bucket_of, codec,
             priv_tx_space,
             task,
             mii_bus,
             tx_pending, spi_msgs>>
fwdrest == <<fwdrest0, irq>>

\* adin2111_host_receive: the ports a frame of the host is sent to and the
\* table left behind
HostTargets(tbl, dst, now) ==
    LET lk == adin2111_lookup_mac(tbl, dst, now)
    IN  IF is_broadcast_ether_addr(dst) \/ is_multicast_ether_addr(dst)
        THEN [targets |-> PhyPorts, tbl |-> tbl, ops |-> <<>>, ret |-> -1]
        ELSE [targets |-> {IF lk.ret < 0 THEN 0 ELSE lk.ret} \cap PhyPorts,
              tbl |-> lk.tbl, ops |-> <<"lookup">>, ret |-> lk.ret]

\* fwd_last, the last frame handled: where it came from ("phy" with its
\* port, or "host"), whether its destination is unicast, the port the table
\* held for the destination when the frame arrived (-1: no valid entry),
\* the ports it was sent to and the table operations made for it, in order
Handled(from, port, dst, tbl, now, f) ==
    [from |-> from, port |-> port,
     unicast |-> ~(is_broadcast_ether_addr(dst)
                     \/ is_multicast_ether_addr(dst)),
     had |-> IF tbl = <<>> \/ dst \notin Unicast THEN -1
             ELSE adin2111_lookup_mac(tbl, dst, now).ret,
     targets |-> f.targets, ops |-> f.ops]

\* the table operations of a frame handler, in order, on the ghosts
OpsDone(f, src, port) ==
    LET learnt == "learn" \in {f.ops[i] : i \in DOMAIN f.ops}
        looked == "lookup" \in {f.ops[i] : i \in DOMAIN f.ops}
    IN  /\ age_sat' = IF learnt THEN Fresh(age_sat, src, port) ELSE age_sat
        /\ tbl_ops' =
              IF looked
              THEN OpLookup(IF learnt THEN OpLearn(tbl_ops, src, port)
                            ELSE tbl_ops,
                            IF learnt THEN Fresh(age_sat, src, port)
                            ELSE age_sat, f.ret)
              ELSE IF learnt THEN OpLearn(tbl_ops, src, port)
              ELSE tbl_ops

\* adin2111_phy_receive of the hybrid model: adin2111_forward_packet at its
\* end (the RX FIFO and STATUS1 are followed in SpecQemu)
hybrid_phy_receive ==
    /\ variant = "qhybrid"
    /\ \E port \in PhyPorts, src \in Unicast, dst \in DstAddrs :
          LET f == adin2111_forward_packet(hardware_forwarding_enabled,
                                           mac_table, port, src, dst, clock)
          IN  /\ src # dst
              /\ mac_table' = f.tbl
              /\ OpsDone(f, src, port)
              /\ fwd_last' = Handled("phy", port, dst, mac_table, clock, f)
    /\ UNCHANGED <<fwdrest, int_status, clock, advances>>

\* adin2111_host_receive: a frame the host transmits
adin2111_host_receive ==
    /\ variant = "qhybrid"
    /\ \E dst \in DstAddrs :
          LET f == HostTargets(mac_table, dst, clock)
          IN  /\ mac_table' = f.tbl
              /\ OpsDone(f, dst, 0)
              /\ fwd_last' = Handled("host", -1, dst, mac_table, clock, f)
    /\ UNCHANGED <<fwdrest, int_status, clock, advances>>

\* adin2111_receive of hw/net/adin2111.c: a frame arrives at a port
qemu_receive ==
    /\ variant = "qemu"
    /\ \E port \in PhyPorts, dst \in DstAddrs :
          IF reset_active
          THEN UNCHANGED <<int_status, fwd_last, irq>>
          ELSE /\ fwd_last' = Handled("phy", port, dst, mac_table, clock,
                                      [targets |-> QemuTargets(QDev, port),
                                       ops |-> <<>>])
               /\ int_status' = BitOr(int_status,
                                      IF port = 0 THEN ADIN2111_INT_RX1
                                      ELSE ADIN2111_INT_RX2)
               /\ irq' = IrqRaise(int_status', int_mask)
    /\ UNCHANGED <<fwdrest0, mac_table, tbl_ops, age_sat, clock, advances>>

\* QEMU_CLOCK_VIRTUAL advances
clock_advance ==
    /\ variant \in {"qhybrid", "qemu"}
    /\ advances < MaxAdvances
    /\ \E d \in {1, MAC_AGE_TIME_MS} :
          /\ clock' = clock + d
          /\ age_sat' = Aged(age_sat, d)
    /\ advances' = advances + 1
    /\ UNCHANGED <<fwdrest, int_status, mac_table, tbl_ops, fwd_last>>

\* what a step of the driver's table leaves alone
drvrest == <<ringonly, fxvars, rxvars, queue_stopped, up, stats, fifovars,
             xmit_bus_ops, next_id, freed, busy_seen, regvars, qvars, variant,
             ppc, hw_ret, probe_ret, timeout, pdata, chip, in_reset, written,
             registered, single_interface_mode, bucket_of, fwd_last, codec,
             priv_tx_space,
             task,
             mii_bus,
             tx_pending,
             spi_msgs>>

\* the first entry of a chain that holds addr (0: none)
ChainFind(chain, addr) ==
    IF \E i \in DOMAIN chain : chain[i].addr = addr
    THEN CHOOSE i \in DOMAIN chain :
            /\ chain[i].addr = addr
            /\ \A j \in 1..(i - 1) : chain[j].addr # addr
    ELSE 0
ChainDel(chain, i) ==
    [k \in 1..(Len(chain) - 1) |-> IF k < i THEN chain[k] ELSE chain[k + 1]]

\* adin2111_learn_mac of the driver: the table after it; ok is false when
\* kmalloc(GFP_ATOMIC) fails
DrvLearn_add(tbl, b, addr, port, now, ok) ==
    IF ok
    THEN [tbl EXCEPT ![b] = <<[addr |-> addr, port |-> port,
                              updated |-> now]>> \o @]
    ELSE tbl
DrvLearn(tbl, b, addr, port, now, ok) ==
    LET i == ChainFind(tbl[b], addr)
    IN  IF i # 0
        THEN [tbl EXCEPT ![b][i].port = port, ![b][i].updated = now]
        ELSE IF ok
        THEN [tbl EXCEPT ![b] = <<[addr |-> addr, port |-> port,
                                  updated |-> now]>> \o @]
        ELSE tbl

\* adin2111_lookup_mac_port: the port or -1, and the table it leaves
DrvLookup(tbl, b, addr, now) ==
    LET i == ChainFind(tbl[b], addr)
        old == i # 0 /\ time_after(now, U32Add(tbl[b][i].updated,
                                                MAC_AGE_TIME))
    IN  [ret |-> IF i = 0 \/ old THEN -1 ELSE tbl[b][i].port,
         tbl |-> IF old THEN [tbl EXCEPT ![b] = ChainDel(tbl[b], i)]
                 ELSE tbl]

\* adin1110_read_fifo in single interface mode: adin2111_learn_mac for the
\* source address of a received frame
adin2111_learn_mac ==
    /\ variant = "hybrid"
    /\ single_interface_mode
    /\ \E addr \in DrvAddrs, port \in PhyPorts, ok \in BOOLEAN :
          LET b == bucket_of[addr]
              found == ChainFind(mac_table[b], addr) # 0
          IN  /\ found => ok
              /\ CanFail(ok)
              /\ faults' = Faulted(ok)
              /\ mac_table' = DrvLearn(mac_table, b, addr, port, jiffies, ok)
              /\ IF ok
                 THEN /\ age_sat' = Fresh(age_sat, addr, port)
                      /\ tbl_ops' = OpLearn(tbl_ops, addr, port)
                 ELSE /\ UNCHANGED age_sat
                      /\ tbl_ops' = [NoOps EXCEPT !.last = "learn"]
    /\ UNCHANGED <<drvrest, jiffies, advances>>

\* adin2111_single_xmit of a unicast frame: adin2111_lookup_mac_port for
\* its destination
adin2111_lookup_mac_port ==
    /\ variant = "hybrid"
    /\ single_interface_mode
    /\ LET lk == DrvLookup(mac_table, bucket_of[MacA], MacA, jiffies)
       IN  /\ mac_table' = lk.tbl
           /\ tbl_ops' = OpLookup(tbl_ops, age_sat, lk.ret)
    /\ UNCHANGED <<drvrest, faults, jiffies, advances, age_sat>>

\* the timer interrupt: jiffies advances
jiffies_advance ==
    /\ variant = "hybrid"
    /\ advances < MaxAdvances
    /\ \E d \in {1, MAC_AGE_TIME, BigStep} :
          /\ jiffies' = IF d = BigStep
                        THEN U32Add(U32Add(U32Add(jiffies, d), d), d)
                        ELSE U32Add(jiffies, d)
          /\ age_sat' = Aged(age_sat, d)
    /\ advances' = advances + 1
    /\ UNCHANGED <<drvrest, faults, mac_table, tbl_ops>>

NextFwd ==
    \/ hybrid_phy_receive
    \/ adin2111_host_receive
    \/ qemu_receive
    \/ clock_advance
    \/ adin2111_learn_mac
    \/ adin2111_lookup_mac_port
    \/ jiffies_advance

SpecFwd == InitFwd /\ [][NextFwd]_vars

(***************************************************************************)
(* SpecCodec: the frame header.  adin2111_tx_frame ("netdev") and the TX   *)
(* worker of adin2111_netdev_correct.c ("correct") encode; the device      *)
(* presents the bytes it was given; adin2111_rx_handler decodes.           *)
(* adin2111_regs.h is not part of the sources: the port field is taken at  *)
(* bits 15..12, where the TX worker puts it, and the length field at bits  *)
(* 10..0, the bits adin2111_rx_handler keeps of the frame size.            *)
(***************************************************************************)
ETH_ZLEN == 60
ADIN2111_FRAME_HEADER_LEN_MASK == [shift |-> 0, width |-> 11]
ADIN2111_FRAME_HEADER_PORT_MASK == [shift |-> 12, width |-> 4]
FIELD_PREP(mask, val) == (val % (2^mask.width)) * (2^mask.shift)
FIELD_GET(mask, reg) == (reg \div (2^mask.shift)) % (2^mask.width)

\* the lengths of the frames of the model, from the shortest to the longest
CodecLens == {ETH_ZLEN, ETH_ZLEN + 1, 64, 127, 128, 255, 256, 511, 512, 1023,
              1024, ADIN2111_MAX_FRAME_SIZE - 1, ADIN2111_MAX_FRAME_SIZE}
\* the bytes of the frame of a length
Payload(len) == [i \in 1..len |-> (7 * i + len) % 256]

\* the u16 frame header of adin2111_tx_frame, and of the TX worker
TxFrameHeader(len, port) ==
    (FIELD_PREP(ADIN2111_FRAME_HEADER_LEN_MASK, len)
       + FIELD_PREP(ADIN2111_FRAME_HEADER_PORT_MASK, port)) % 65536
TxWorkerHeader(len, port, switch_mode) ==
    IF switch_mode
    THEN BitOr(len % 65536, ((port + 1) * 4096) % 65536) ELSE len % 65536
\* frame_buf[0] = frame_header >> 8; frame_buf[1] = frame_header & 0xFF
HeaderBytes(frame_header) ==
    <<(frame_header \div 256) % 256, frame_header % 256>>

InitCodec ==
    /\ spi_msgs = <<>>
    /\ tx_pending = 0
    /\ mii_bus = FALSE
    /\ task = <<>>
    /\ priv_tx_space = 0
    /\ variant \in {"netdev", "correct"}
    /\ InitNetdev
    /\ RingUnused
    /\ FxUnused /\ RxUnused /\ RegUnused
    /\ ProbeUnused
    /\ QemuUnused
    /\ mac_table = <<>> /\ single_interface_mode = FALSE
    /\ bucket_of = <<>> /\ tbl_ops = <<>> /\ age_sat = <<>>
    /\ fwd_last = NoFwd /\ advances = 0
    /\ \E len \in CodecLens, switch_mode \in BOOLEAN, port \in PhyPorts :
          /\ ~switch_mode => port = 0
          /\ codec = [stage |-> "frame", len |-> len, port |-> port,
                      switch_mode |-> switch_mode, buf |-> <<>>,
                      out_len |-> 0, out_port |-> 0, out |-> <<>>]

\* what a step of the codec leaves alone
codecrest == <<ringonly, fxvars, rxvars, queue_stopped, up, stats, fifovars,
               xmit_bus_ops, next_id, freed, busy_seen, initvars, regvars,
               qvars, variant, faults, mac_table, single_interface_mode,
               bucket_of, tbl_ops, age_sat, fwd_last, advances,
             priv_tx_space,
             task,
             mii_bus,
             tx_pending,
             spi_msgs>>

\* the encoder: the header and the frame, as written to the TX FIFO
tx_frame_encode ==
    /\ variant \in {"netdev", "correct"}
    /\ codec.stage = "frame"
    /\ LET frame_header ==
               IF variant = "netdev"
               THEN TxFrameHeader(codec.len, codec.port)
               ELSE TxWorkerHeader(codec.len, codec.port, codec.switch_mode)
       IN  codec' = [codec EXCEPT
                        !.stage = "sent",
                        !.buf = HeaderBytes(frame_header)
                                   \o Payload(codec.len)]
    /\ UNCHANGED codecrest

\* adin2111_rx_handler on the bytes the encoder wrote: RX_FSIZE gives their
\* number
rx_handler_decode ==
    /\ variant \in {"netdev", "correct"}
    /\ codec.stage = "sent"
    /\ LET frame_size == FrameSize11(Len(codec.buf))
           frame_header == codec.buf[1] * 256 + codec.buf[2]
           port_mask == FIELD_GET(ADIN2111_FRAME_HEADER_PORT_MASK,
                                  frame_header)
       IN  IF \/ frame_size < ADIN2111_FRAME_HEADER_LEN
              \/ frame_size > ADIN2111_MAX_FRAME_SIZE
                                 + ADIN2111_FRAME_HEADER_LEN
           THEN codec' = [codec EXCEPT !.stage = "rejected"]
           ELSE codec' = [codec EXCEPT
                   !.stage = "decoded",
                   !.out_port = IF codec.switch_mode
                                THEN (IF BitAnd(port_mask, 2) # 0 THEN 1
                                      ELSE 0)
                                ELSE 0,
                   !.out_len = frame_size - ADIN2111_FRAME_HEADER_LEN,
                   !.out = SubSeq(codec.buf, ADIN2111_FRAME_HEADER_LEN + 1,
                                  frame_size)]
    /\ UNCHANGED codecrest

NextCodec ==
    \/ tx_frame_encode
    \/ rx_handler_decode

SpecCodec == InitCodec /\ [][NextCodec]_vars

\* the table holds an entry for the address
HasEntry(a) ==
    IF variant = "qhybrid"
    THEN mac_table[mac_hash(a)].valid /\ mac_table[mac_hash(a)].addr = a
    ELSE IF variant = "hybrid" /\ a \in DOMAIN bucket_of
    THEN ChainFind(mac_table[bucket_of[a]], a) # 0
    ELSE FALSE
\* the last table operation was a lookup of MacA
LookedUp == tbl_ops.last \in {"hit", "miss"}

\* C21: a lookup of an address that comes right after two learns of it, on
\* port 0 and then on port 1 (or on any two ports), with no aging in
\* between, returns the port of the second learn
C21_LastLearnWins ==
    (LookedUp /\ Len(tbl_ops.before) = 2 /\ ~tbl_ops.aged)
        => tbl_ops.port = tbl_ops.before[2]
C21_Witness ==
    /\ LookedUp
    /\ tbl_ops.before = <<0, 1>>
    /\ tbl_ops.port = 1

\* C22: a lookup of an address made more than the age timeout after its
\* last learn returns no port and leaves no valid entry for it
C22_AgedLookupMisses ==
    (LookedUp /\ tbl_ops.aged) => (tbl_ops.port = -1 /\ ~HasEntry(MacA))

\* the number of valid entries the table holds for an address
EntriesFor(a) ==
    IF variant = "qhybrid"
    THEN Cardinality({i \in DOMAIN mac_table :
                         mac_table[i].valid /\ mac_table[i].addr = a})
    ELSE IF variant = "hybrid"
    THEN Cardinality({<<b, i>> \in (DOMAIN mac_table) \X (1..4) :
                         /\ i \in DOMAIN mac_table[b]
                         /\ mac_table[b][i].addr = a})
    ELSE 0

\* C23: the table never holds more than one valid entry for an address,
\* whatever the order of the learns and lookups
C23_OneEntryPerAddress == \A a \in Unicast : EntriesFor(a) <= 1
C23_Witness ==
    /\ variant = "hybrid"
    /\ tbl_ops.run = <<0, 1>>
    /\ EntriesFor(MacA) = 1
    /\ EntriesFor(MacB) = 1
    /\ bucket_of[MacA] = bucket_of[MacB]

\* a frame has been handled with the switch enabled
SwitchMode ==
    /\ fwd_last.from # "none"
    /\ IF variant = "qemu" THEN switch_enabled
       ELSE hardware_forwarding_enabled

\* C24: in switch mode a unicast frame whose destination has no valid table
\* entry is sent to every port but the one it came from (a frame of the
\* host came from neither port)
C24_UnknownUnicastFloods ==
    (SwitchMode /\ fwd_last.unicast /\ fwd_last.had = -1)
        => fwd_last.targets = PhyPorts \ {fwd_last.port}

\* C25: a unicast frame that arrives on the port the table holds for its
\* destination is sent to no port
C25_NoneBackToSource ==
    (fwd_last.from = "phy" /\ fwd_last.unicast
        /\ fwd_last.had = fwd_last.port)
        => fwd_last.targets = {}

\* C26: whatever the configuration, the handler of a frame learns the
\* source address before it looks the destination up
C26_LearnBeforeLookup ==
    fwd_last.from # "none"
        => (fwd_last.ops # <<>> /\ fwd_last.ops[1] = "learn")

TxCounters(st) == <<st.tx_packets, st.tx_bytes, st.tx_errors, st.tx_dropped>>
RxCounters(st) == <<st.rx_packets, st.rx_bytes, st.rx_errors, st.rx_dropped>>

\* C28: the TX counters change in steps of the TX worker only and the RX
\* counters in steps of the RX loop only
C28_StatsOwnedByPipelines ==
    [][/\ TxCounters(stats') # TxCounters(stats) => wpc' # wpc
       /\ RxCounters(stats') # RxCounters(stats) => rpc' # rpc]_vars

\* C29: for every frame length from the shortest to the longest and each
\* port, the decoder gets the length, the port and the bytes of the frame
\* back from what the encoder wrote
C29_HeaderRoundTrip ==
    codec.stage \in {"decoded", "rejected"} =>
        /\ codec.stage = "decoded"
        /\ codec.out_len = codec.len
        /\ codec.out_port = codec.port
        /\ codec.out = Payload(codec.len)

\* C30: while the interface is up and the carrier is on (the queue is then
\* stopped for the occupancy of the ring only), the queue is never left
\* stopped with the ring empty, no start_xmit in progress and the worker
\* idle with no work pending
C30_NoStoppedIdleEmpty ==
    ~(/\ variant = "correct"
      /\ up
      /\ carrier_ok
      /\ queue_stopped
      /\ tx_head = tx_tail
      /\ xpc = "idle"
      /\ wpc = "idle"
      /\ ~tx_work_pending)

(***************************************************************************)
(* SpecK66: the TX ring of adin2111_netdev_kernel66.c                      *)
(***************************************************************************)
K66_TX_RING_SIZE == 256
FRAME_HEADER_SIZE == 4
\* frames the stack gets accepted over one run of the kernel 6.6 ring
MaxK66Frames == 3
\* values the TX_SPACE register reports
K66TxSpaceValues == {FrameLen + FRAME_HEADER_SIZE - 1,
                     FrameLen + FRAME_HEADER_SIZE}

K66Slot(i) == i % K66_TX_RING_SIZE
\* a >= b on unsigned int, both in the two's-complement reading
U32Geq(a, b) == IF (a < 0) = (b < 0) THEN a >= b ELSE a < 0

\* if (next_head == port->tx_tail + TX_RING_SIZE)
K66Full(head, tail) == U32Inc(head) = U32Add(tail, K66_TX_RING_SIZE)
\* if (next_head >= port->tx_tail + TX_RING_SIZE - 8)
K66NearFull(next_head, tail) ==
    U32Geq(next_head, U32Add(tail, K66_TX_RING_SIZE - 8))

\* the ring with n frames queued from index tail on before the run,
\* numbered -1, -2, ...
K66Ring(tail, n) ==
    [k \in 0..(K66_TX_RING_SIZE - 1) |->
        IF K66Slot(k - tail) < n THEN -(K66Slot(k - tail) + 1) ELSE NULL]

\* an open interface with n frames queued from index tail on and the worker
\* not yet run
K66Seed(tails, counts) ==
    /\ \E tail \in tails, n \in counts :
          /\ tx_tail = tail
          /\ tx_head = U32Add(tail, n)
          /\ tx_ring = K66Ring(tail, n)
          /\ next_id = 1
          /\ tx_work_pending = (n > 0)
    /\ rx_thread_running = TRUE
    /\ queue_stopped = FALSE
    /\ carrier_ok = TRUE
    /\ up = TRUE
    /\ wpc = "idle"
    /\ w_tail = 0
    /\ w_skb = NULL
    /\ link_work_pending = TRUE
    /\ xpc = "idle"
    /\ x_stop = FALSE
    /\ spc = "idle"
    /\ lock = "free"
    /\ stats = ZeroStats
    /\ tx_fifo_last = 0
    /\ tx_fifo_cnt = 0
    /\ link_bit = TRUE
    /\ xmit_bus_ops = 0
    /\ faults = 0
    /\ timeouts = 0
    /\ freed = 0
    /\ busy_seen = FALSE
    /\ deq_since_busy = 0
    /\ wake_since_busy = 0
    /\ variant = "kernel66tx"
    /\ FxUnused
    /\ RegUnused
    /\ QemuUnused
    /\ ProbeUnused
    /\ FwdUnused
    /\ RxUnused

\* an empty ring, at the start and just before the indices wrap
InitK66 == K66Seed({0, -2}, {0})

\* tx_tail at the start, and 300, 256, 250, 100 and 9 below 2^32
K66Tails == {0, -300, -256, -250, -100, -9}
\* frames in the ring: none, a few, and around the two thresholds
K66Counts == {0, 1, 8, 99, 245, 246, 247, 248, 253, 254, 255}

k66rest == <<others, rx_thread_running, carrier_ok, up, link_work_pending,
             spc, link_bit, timeouts, xmit_bus_ops, deq_since_busy,
             wake_since_busy>>

\* adin2111_start_xmit up to schedule_work
k66_start_xmit ==
    /\ variant = "kernel66tx"
    /\ up /\ ~queue_stopped /\ xpc = "idle"
    /\ IF K66Full(tx_head, tx_tail)
       THEN /\ queue_stopped' = TRUE
            /\ busy_seen' = TRUE
            /\ UNCHANGED <<ringvars, tx_work_pending, xmitvars, next_id>>
       ELSE /\ next_id <= MaxK66Frames
            /\ tx_ring' = [tx_ring EXCEPT ![K66Slot(tx_head)] = next_id]
            /\ tx_head' = U32Inc(tx_head)
            /\ tx_work_pending' = TRUE
            /\ xpc' = "stopcheck"
            /\ next_id' = next_id + 1
            /\ busy_seen' = FALSE
            /\ UNCHANGED <<tx_tail, queue_stopped, x_stop>>
    /\ UNCHANGED <<k66rest, wpc, w_tail, w_skb, lock, stats, fifovars, faults,
                   freed>>

\* "stop queue if getting full" (tx_tail is read again), return NETDEV_TX_OK
k66_start_xmit_tail ==
    /\ variant = "kernel66tx"
    /\ xpc = "stopcheck"
    /\ queue_stopped' = (queue_stopped \/ K66NearFull(tx_head, tx_tail))
    /\ xpc' = "idle"
    /\ UNCHANGED <<k66rest, ringvars, workvars, x_stop, lock, stats, fifovars,
                   next_id, faults, freed, busy_seen>>

\* the workqueue starts adin2111_tx_worker
k66_tx_worker_run ==
    /\ variant = "kernel66tx"
    /\ tx_work_pending /\ wpc = "idle"
    /\ tx_work_pending' = FALSE
    /\ wpc' = "loop"
    /\ w_skb' = tx_ring[K66Slot(tx_tail)]
    /\ UNCHANGED <<k66rest, ringvars, queue_stopped, w_tail, xmitvars, lock,
                   stats, fifovars, next_id, faults, freed, busy_seen>>

\* skb = port->tx_ring[tail % TX_RING_SIZE].skb, read with a plain load that
\* nothing orders after the load of tx_head
K66EntrySkb(ring, tail, early) == {ring[K66Slot(tail)], early}

\* while (tx_tail != tx_head) { skb = ...; if (!skb) { tx_tail = tail + 1;
\* continue; } mutex_lock; read TX_SPACE; no space: unlock, schedule_work,
\* break
k66_tx_worker_next ==
    /\ variant = "kernel66tx"
    /\ wpc = "loop"
    /\ IF tx_tail = tx_head
       THEN /\ wpc' = "idle"
            /\ w_skb' = NULL
            /\ UNCHANGED <<tx_tail, w_tail, faults, tx_work_pending, lock>>
       ELSE \E skb \in K66EntrySkb(tx_ring, tx_tail, w_skb) :
               IF skb = NULL
               THEN /\ tx_tail' = U32Inc(tx_tail)
                    /\ w_skb' = tx_ring[K66Slot(U32Inc(tx_tail))]
                    /\ UNCHANGED <<wpc, w_tail, faults, tx_work_pending,
                                   lock>>
               ELSE /\ lock = "free"
                    /\ w_skb' = NULL
                    /\ \E ok \in BOOLEAN, tx_space \in K66TxSpaceValues :
                          /\ CanFail(ok)
                          /\ faults' = Faulted(ok)
                          /\ IF ~ok \/ tx_space < FrameLen + FRAME_HEADER_SIZE
                             THEN /\ tx_work_pending' = TRUE
                                  /\ wpc' = "idle"
                                  /\ UNCHANGED <<lock, w_tail>>
                             ELSE /\ wpc' = "write"
                                  /\ w_tail' = tx_tail
                                  /\ lock' = "tx_worker"
                                  /\ UNCHANGED tx_work_pending
                    /\ UNCHANGED tx_tail
    /\ UNCHANGED <<k66rest, tx_ring, tx_head, queue_stopped, xmitvars, stats,
                   fifovars, next_id, freed, busy_seen>>

\* write header and data, unlock, stats, free the skb, clear the entry,
\* advance tx_tail, netif_wake_queue
k66_tx_worker_write ==
    /\ variant = "kernel66tx"
    /\ wpc = "write"
    /\ \E hdr \in BOOLEAN, data \in BOOLEAN :
          /\ CanFail(hdr /\ data)
          /\ hdr \/ data
          /\ faults' = Faulted(hdr /\ data)
          /\ IF hdr /\ data
             THEN /\ tx_fifo_last' = tx_ring[K66Slot(w_tail)]
                  /\ tx_fifo_cnt' = tx_fifo_cnt + 1
                  /\ stats' = [stats EXCEPT !.tx_packets = @ + 1,
                                            !.tx_bytes = @ + FrameLen]
             ELSE /\ stats' = Bump("tx_errors")
                  /\ UNCHANGED fifovars
    /\ lock' = "free"
    /\ freed' = freed + 1
    /\ tx_ring' = [tx_ring EXCEPT ![K66Slot(w_tail)] = NULL]
    /\ tx_tail' = U32Inc(w_tail)
    /\ queue_stopped' = FALSE
    /\ wpc' = "loop"
    /\ w_tail' = 0
    /\ w_skb' = tx_ring[K66Slot(U32Inc(w_tail))]
    /\ UNCHANGED <<k66rest, tx_head, tx_work_pending, xmitvars, next_id,
                   busy_seen>>

NextK66 ==
    \/ k66_start_xmit
    \/ k66_start_xmit_tail
    \/ k66_tx_worker_run
    \/ k66_tx_worker_next
    \/ k66_tx_worker_write

SpecK66 == InitK66 /\ [][NextK66]_vars

\* the workqueue runs a pending work item and lets it take its steps; the
\* device reports enough TX space again and again
SpecK66Fair ==
    /\ SpecK66
    /\ WF_vars(k66_tx_worker_run)
    /\ WF_vars(k66_tx_worker_next)
    /\ WF_vars(k66_tx_worker_write)
    /\ SF_vars(k66_tx_worker_next /\ wpc' = "write")

(***************************************************************************)
(* SpecHybTx: the transmit path of adin2111_hybrid.c in dual interface     *)
(* mode: adin1110_start_xmit, adin1110_tx_work, adin1110_write_fifo        *)
(***************************************************************************)
ADIN1110_MAX_BUFF == 2048
ADIN1110_FRAME_HEADER_LEN == 2
ADIN1110_INTERNAL_SIZE_HEADER_LEN == 2

\* tx_space_needed of adin1110_start_xmit
TxSpaceNeeded(len) ==
    len + ADIN1110_FRAME_HEADER_LEN + ADIN1110_INTERNAL_SIZE_HEADER_LEN

\* the state after adin1110_probe: "Set default TX space"
InitHybTx ==
    /\ variant = "hybridtx"
    /\ InitNetdev
    /\ RingUnused
    /\ FxUnused
    /\ RegUnused
    /\ QemuUnused
    /\ ProbeUnused
    /\ TablesUnused
    /\ RxUnused
    /\ priv_tx_space = ADIN1110_MAX_BUFF
    /\ LockUnused
    /\ AsyncUnused

hybtxrest == <<task, mii_bus, tx_ring, tx_head, tx_tail, rx_thread_running, carrier_ok,
               w_tail, w_skb, link_work_pending, xpc, x_stop, spc, link_bit,
               timeouts, deq_since_busy, wake_since_busy, works,
               tasklet_pending, tpc, rxvars, variant, regvars, qvars,
               initvars, mac_table, single_interface_mode, bucket_of,
               tbl_ops, age_sat, fwd_last, advances, codec, up,
               xmit_bus_ops, tx_pending,
              spi_msgs>>

adin1110_start_xmit ==
    /\ variant = "hybridtx"
    /\ up /\ ~queue_stopped
    /\ IF TxSpaceNeeded(FrameLen) > priv_tx_space
       THEN /\ queue_stopped' = TRUE
            /\ busy_seen' = TRUE
            /\ UNCHANGED <<priv_tx_space, tx_queue, next_id>>
       ELSE /\ priv_tx_space' = priv_tx_space - TxSpaceNeeded(FrameLen)
            /\ tx_queue' = Append(tx_queue, next_id)
            /\ next_id' = next_id + 1
            /\ busy_seen' = FALSE
            /\ UNCHANGED queue_stopped
    /\ tx_work_pending' = TRUE
    /\ UNCHANGED <<hybtxrest, wpc, lock, stats, fifovars, faults, freed>>

\* the workqueue starts adin1110_tx_work: mutex_lock(&priv->lock)
adin1110_tx_work_run ==
    /\ variant = "hybridtx"
    /\ tx_work_pending /\ wpc = "idle" /\ lock = "free"
    /\ tx_work_pending' = FALSE
    /\ wpc' = "loop"
    /\ lock' = "tx_worker"
    /\ UNCHANGED <<hybtxrest, queue_stopped, priv_tx_space, tx_queue, next_id,
                   busy_seen, stats, fifovars, faults, freed>>

\* what adin1110_write_fifo comes to: the TX_SPACE read fails, the device
\* has too little space (-ENOSPC), kzalloc fails, spi_write fails, or the
\* frame is written
WriteFifoResults == {"ok", "rd_fail", "nospace", "nomem", "spi_fail"}

\* while ((txb = skb_dequeue(&port_priv->txq))) { adin1110_write_fifo;
\* dev_kfree_skb } mutex_unlock
adin1110_tx_work ==
    /\ variant = "hybridtx"
    /\ wpc = "loop"
    /\ IF tx_queue = <<>>
       THEN /\ wpc' = "idle"
            /\ lock' = "free"
            /\ UNCHANGED <<tx_queue, stats, fifovars, faults, freed>>
       ELSE /\ \E res \in WriteFifoResults :
                  /\ CanFail(res \notin {"rd_fail", "spi_fail"})
                  /\ faults' = Faulted(res \notin {"rd_fail", "spi_fail"})
                  /\ IF res = "ok"
                     THEN /\ tx_fifo_last' = Head(tx_queue)
                          /\ tx_fifo_cnt' = tx_fifo_cnt + 1
                          /\ stats' = [stats EXCEPT !.tx_packets = @ + 1,
                                                    !.tx_bytes = @ + FrameLen]
                     ELSE UNCHANGED <<stats, fifovars>>
            /\ tx_queue' = Tail(tx_queue)
            /\ freed' = freed + 1
            /\ UNCHANGED <<wpc, lock>>
    /\ UNCHANGED <<hybtxrest, queue_stopped, priv_tx_space, tx_work_pending,
                   next_id, busy_seen>>

NextHybTx ==
    \/ hybrid_open
    \/ adin1110_start_xmit
    \/ adin1110_tx_work_run
    \/ adin1110_tx_work

SpecHybTx == InitHybTx /\ [][NextHybTx]_vars

\* the workqueue runs a pending work item and lets it take its steps
SpecHybTxFair ==
    /\ SpecHybTx
    /\ WF_vars(adin1110_tx_work_run)
    /\ WF_vars(adin1110_tx_work)

(***************************************************************************)
(* SpecK66Ring: adin2111_start_xmit of adin2111_netdev_kernel66.c on rings  *)
(* of every fill level with the indices at and below the 2^32 boundary,    *)
(* the worker not running                                                  *)
(***************************************************************************)
InitK66Ring == K66Seed(K66Tails, K66Counts)

NextK66Ring ==
    \/ k66_start_xmit
    \/ k66_start_xmit_tail

SpecK66Ring == InitK66Ring /\ [][NextK66Ring]_vars

(***************************************************************************)
(* SpecLock: priv->lock as the contexts of the driver take and release it. *)
(* "lock_correct": adin2111_tx_worker, adin2111_rx_thread and              *)
(* adin2111_link_poll of adin2111_netdev_correct.c; "lock_link":           *)
(* adin2111_link_work of adin2111_link.c.  In both, phylib calls           *)
(* adin2111_mdio_read and adin2111_mdio_write of adin2111_mdio.c.  The     *)
(* frames and the statistics of these handlers are those of SpecTx and     *)
(* SpecRx; here whether a frame is queued or ready, and the result of each *)
(* transport operation, are the environment's choice.                      *)
(***************************************************************************)
ADIN2111_PORTS == 2
Contexts == {"tx_worker", "rx_thread", "link_poll", "link_work", "phy"}
AtRest == [pc |-> "idle", op |-> "none", i |-> 0]

InitLock ==
    /\ variant \in {"lock_correct", "lock_link"}
    /\ task = [c \in Contexts |-> AtRest]
    /\ mii_bus \in (IF variant = "lock_link" THEN BOOLEAN ELSE {TRUE})
    /\ InitNetdev
    /\ RingUnused
    /\ FxUnused
    /\ RegUnused
    /\ QemuUnused
    /\ ProbeUnused
    /\ TablesUnused
    /\ HybTxUnused
    /\ AsyncUnused
    /\ RxUnused

lockrest == <<tx_ring, tx_head, tx_tail, rx_thread_running, tx_work_pending,
              wpc, w_tail, w_skb, link_work_pending, xpc, x_stop, spc,
              link_bit, timeouts, deq_since_busy, wake_since_busy, fxvars,
              rxvars, variant, regvars, qvars, initvars, mac_table,
              single_interface_mode, bucket_of, tbl_ops, age_sat, fwd_last,
              advances, codec, priv_tx_space, mii_bus, up, stats, fifovars,
              xmit_bus_ops, next_id, faults, freed, busy_seen, tx_pending,
              spi_msgs>>

\* the context moves on
Go(c, pc) == [task EXCEPT ![c].pc = pc]
\* mutex_lock(&priv->lock): the caller sleeps until the mutex is free
MutexLock(c) == lock = "free" /\ lock' = c
MutexUnlock == lock' = "free"

\* netif_carrier_on + netif_wake_queue, netif_carrier_off + netif_stop_queue
LinkUpdate(known, link_up) ==
    IF known /\ link_up /\ ~carrier_ok
    THEN carrier_ok' = TRUE /\ queue_stopped' = FALSE
    ELSE IF known /\ ~link_up /\ carrier_ok
    THEN carrier_ok' = FALSE /\ queue_stopped' = TRUE
    ELSE UNCHANGED <<carrier_ok, queue_stopped>>

(* adin2111_tx_worker of adin2111_netdev_correct.c *)
\* the workqueue starts the work item
lk_tx_worker_run ==
    /\ variant = "lock_correct"
    /\ task["tx_worker"].pc = "idle"
    /\ task' = Go("tx_worker", "loop")
    /\ UNCHANGED <<lockrest, lock, carrier_ok, queue_stopped>>

\* while (tx_tail != tx_head) { ... if (!skb) break; mutex_lock
lk_tx_worker_lock ==
    /\ variant = "lock_correct"
    /\ task["tx_worker"].pc = "loop"
    /\ \E more \in BOOLEAN :
          IF more
          THEN MutexLock("tx_worker") /\ task' = Go("tx_worker", "space")
          ELSE task' = Go("tx_worker", "idle") /\ UNCHANGED lock
    /\ UNCHANGED <<lockrest, carrier_ok, queue_stopped>>

\* where the worker stands and who has the mutex after the TX_SPACE read
\* a no-space path that keeps the mutex
TxSpaceLeaves_held(enough) ==
    IF enough THEN <<"write", "tx_worker">> ELSE <<"idle", "tx_worker">>
TxSpaceLeaves(enough) ==
    IF enough THEN <<"write", "tx_worker">> ELSE <<"idle", "free">>

\* read TX_SPACE; error or no space: mutex_unlock, schedule_work, break
lk_tx_worker_space ==
    /\ variant = "lock_correct"
    /\ task["tx_worker"].pc = "space"
    /\ \E enough \in BOOLEAN :
          /\ task' = Go("tx_worker", TxSpaceLeaves(enough)[1])
          /\ lock' = TxSpaceLeaves(enough)[2]
    /\ UNCHANGED <<lockrest, carrier_ok, queue_stopped>>

\* write header and data (either may fail), mutex_unlock, retire the entry
lk_tx_worker_write ==
    /\ variant = "lock_correct"
    /\ task["tx_worker"].pc = "write"
    /\ MutexUnlock
    /\ task' = Go("tx_worker", "loop")
    /\ UNCHANGED <<lockrest, carrier_ok, queue_stopped>>

(* adin2111_rx_thread of adin2111_netdev_correct.c *)
lk_rx_lock ==
    /\ variant = "lock_correct"
    /\ task["rx_thread"].pc = "idle"
    /\ MutexLock("rx_thread")
    /\ task' = Go("rx_thread", "status")
    /\ UNCHANGED <<lockrest, carrier_ok, queue_stopped>>

\* read STATUS1; error or not ready: mutex_unlock, msleep, continue
lk_rx_status ==
    /\ variant = "lock_correct"
    /\ task["rx_thread"].pc = "status"
    /\ \E ready \in BOOLEAN :
          IF ready
          THEN task' = Go("rx_thread", "size") /\ UNCHANGED lock
          ELSE task' = Go("rx_thread", "sleep") /\ MutexUnlock
    /\ UNCHANGED <<lockrest, carrier_ok, queue_stopped>>

\* where the thread stands and who has the mutex after the RX_SIZE read:
\* "bad" is a failed read or a size of 0, "big" a size above the maximum
\* a bad-frame path that keeps the mutex
RxSizeLeaves_held(res) ==
    IF res = "ok" THEN <<"alloc", "rx_thread">> ELSE <<"idle", "rx_thread">>
RxSizeLeaves(res) ==
    IF res = "ok" THEN <<"alloc", "rx_thread">> ELSE <<"idle", "free">>

lk_rx_size ==
    /\ variant = "lock_correct"
    /\ task["rx_thread"].pc = "size"
    /\ \E res \in {"ok", "bad", "big"} :
          /\ task' = Go("rx_thread", RxSizeLeaves(res)[1])
          /\ lock' = RxSizeLeaves(res)[2]
    /\ UNCHANGED <<lockrest, carrier_ok, queue_stopped>>

\* netdev_alloc_skb_ip_align; failure: clear RX ready, mutex_unlock, continue
lk_rx_alloc ==
    /\ variant = "lock_correct"
    /\ task["rx_thread"].pc = "alloc"
    /\ \E ok \in BOOLEAN :
          IF ok
          THEN task' = Go("rx_thread", "fifo") /\ UNCHANGED lock
          ELSE task' = Go("rx_thread", "idle") /\ MutexUnlock
    /\ UNCHANGED <<lockrest, carrier_ok, queue_stopped>>

\* read the FIFO, clear RX ready, mutex_unlock; free or deliver the skb
lk_rx_fifo ==
    /\ variant = "lock_correct"
    /\ task["rx_thread"].pc = "fifo"
    /\ MutexUnlock
    /\ task' = Go("rx_thread", "idle")
    /\ UNCHANGED <<lockrest, carrier_ok, queue_stopped>>

\* msleep returns
lk_rx_msleep ==
    /\ variant = "lock_correct"
    /\ task["rx_thread"].pc = "sleep"
    /\ task' = Go("rx_thread", "idle")
    /\ UNCHANGED <<lockrest, lock, carrier_ok, queue_stopped>>

(* adin2111_link_poll of adin2111_netdev_correct.c *)
lk_link_poll_lock ==
    /\ variant = "lock_correct"
    /\ task["link_poll"].pc = "idle"
    /\ MutexLock("link_poll")
    /\ task' = Go("link_poll", "read")
    /\ UNCHANGED <<lockrest, carrier_ok, queue_stopped>>

\* read STATUS0, mutex_unlock, update the carrier, schedule the next poll
lk_link_poll_read ==
    /\ variant = "lock_correct"
    /\ task["link_poll"].pc = "read"
    /\ MutexUnlock
    /\ \E ok \in BOOLEAN, link_up \in BOOLEAN : LinkUpdate(ok, link_up)
    /\ task' = Go("link_poll", "idle")
    /\ UNCHANGED lockrest

(* adin2111_link_work of adin2111_link.c *)
adin2111_link_work_lock ==
    /\ variant = "lock_link"
    /\ task["link_work"].pc = "idle"
    /\ MutexLock("link_work")
    /\ task' = [task EXCEPT !["link_work"] =
                   [pc |-> "loop", op |-> "none", i |-> 0]]
    /\ UNCHANGED <<lockrest, carrier_ok, queue_stopped>>

\* for (i = 0; i < ADIN2111_PORTS; i++) { if (!priv->mii_bus) break;
\* ret = adin2111_mdio_read(...)
adin2111_link_work_loop ==
    /\ variant = "lock_link"
    /\ task["link_work"].pc = "loop"
    /\ IF task["link_work"].i < ADIN2111_PORTS /\ mii_bus
       THEN task' = [task EXCEPT !["link_work"].pc = "mdio_call",
                                 !["link_work"].op = "read"]
       ELSE task' = Go("link_work", "switch")
    /\ UNCHANGED <<lockrest, lock, carrier_ok, queue_stopped>>

\* "for switch mode, report link if any port is up"; mutex_unlock; schedule
\* the next poll
adin2111_link_work_unlock ==
    /\ variant = "lock_link"
    /\ task["link_work"].pc = "switch"
    /\ \E switch_mode \in BOOLEAN, link_up \in BOOLEAN :
          LinkUpdate(switch_mode, link_up)
    /\ MutexUnlock
    /\ task' = Go("link_work", "idle")
    /\ UNCHANGED lockrest

(* adin2111_mdio_read, adin2111_mdio_write of adin2111_mdio.c *)
\* phylib reads or writes a PHY register through the mii_bus
phy_call ==
    /\ mii_bus
    /\ task["phy"].pc = "idle"
    /\ \E op \in {"read", "write"} :
          task' = [task EXCEPT !["phy"].pc = "mdio_call", !["phy"].op = op]
    /\ UNCHANGED <<lockrest, lock, carrier_ok, queue_stopped>>

\* mutex_lock(&priv->lock) at the head of both functions
adin2111_mdio_lock ==
    \E c \in {"phy", "link_work"} :
        /\ task[c].pc = "mdio_call"
        /\ MutexLock(c)
        /\ task' = Go(c, "mdio")
        /\ UNCHANGED <<lockrest, carrier_ok, queue_stopped>>

\* wait ready, write MDIO_ACC, wait ready, (read MDIO_ACC); every failure
\* goes to out: mutex_unlock, return.  adin2111_link_work goes on with the
\* port's carrier and the next PHY.
adin2111_mdio_out ==
    \E c \in {"phy", "link_work"} :
        /\ task[c].pc = "mdio"
        /\ MutexUnlock
        /\ IF c = "link_work"
           THEN /\ \E ok \in BOOLEAN, link_up \in BOOLEAN :
                      LinkUpdate(ok, link_up)
                /\ task' = [task EXCEPT ![c] =
                               [pc |-> "loop", op |-> "none", i |-> @.i + 1]]
           ELSE /\ task' = [task EXCEPT ![c] = AtRest]
                /\ UNCHANGED <<carrier_ok, queue_stopped>>
        /\ UNCHANGED lockrest

NextLock ==
    \/ lk_tx_worker_run
    \/ lk_tx_worker_lock
    \/ lk_tx_worker_space
    \/ lk_tx_worker_write
    \/ lk_rx_lock
    \/ lk_rx_status
    \/ lk_rx_size
    \/ lk_rx_alloc
    \/ lk_rx_fifo
    \/ lk_rx_msleep
    \/ lk_link_poll_lock
    \/ lk_link_poll_read
    \/ adin2111_link_work_lock
    \/ adin2111_link_work_loop
    \/ adin2111_link_work_unlock
    \/ phy_call
    \/ adin2111_mdio_lock
    \/ adin2111_mdio_out

SpecLock == InitLock /\ [][NextLock]_vars

(***************************************************************************)
(* SpecAsync: the asynchronous transmit path of adin2111_atomic_fix.c,     *)
(* adin2111_start_xmit_async and the completion callback of its SPI        *)
(* messages.  The SPI controller completes the messages in the order they  *)
(* were submitted.                                                         *)
(***************************************************************************)
\* ADIN2111_TX_QUEUE_LIMIT is not defined in the sources; any value of 1 or
\* more gives the same behaviour
ADIN2111_TX_QUEUE_LIMIT == 2
\* frames the stack submits over one run
MaxAsyncFrames == 5

InitAsync ==
    /\ variant = "async"
    /\ InitNetdev
    /\ RingUnused
    /\ FxUnused
    /\ RegUnused
    /\ QemuUnused
    /\ ProbeUnused
    /\ TablesUnused
    /\ HybTxUnused
    /\ LockUnused
    /\ RxUnused
    /\ tx_pending = 0
    /\ spi_msgs = <<>>

asyncrest == <<ringonly, fxvars, rxvars, up, fifovars, xmit_bus_ops,
               busy_seen, faults, variant, regvars, qvars, initvars,
               mac_table, single_interface_mode, bucket_of, tbl_ops, age_sat,
               fwd_last, advances, codec, priv_tx_space, task, mii_bus>>

AsyncResults == {"ok", "nomem_ctx", "nomem_buf", "spi_fail"}

\* adin2111_start_xmit_async: an oversize frame, a failed allocation and a
\* failed spi_async drop the frame; a submitted message is counted in
\* tx_pending and the queue is stopped at the limit
adin2111_start_xmit_async ==
    /\ variant = "async"
    /\ up /\ ~queue_stopped
    /\ next_id <= MaxAsyncFrames
    /\ \E len \in XmitLens, res \in AsyncResults :
          IF len > ADIN2111_MAX_FRAME_SIZE \/ res # "ok"
          THEN /\ stats' = Bump("tx_dropped")
               /\ freed' = freed + 1
               /\ UNCHANGED <<tx_pending, spi_msgs, queue_stopped>>
          ELSE /\ spi_msgs' = Append(spi_msgs, next_id)
               /\ tx_pending' = tx_pending + 1
               /\ queue_stopped' = (tx_pending + 1 >= ADIN2111_TX_QUEUE_LIMIT)
               /\ UNCHANGED <<stats, freed>>
    /\ next_id' = next_id + 1
    /\ UNCHANGED asyncrest

\* adin2111_spi_complete: statistics by the status of the message, the skb
\* and the buffers are freed, a stopped queue is woken
adin2111_spi_complete ==
    /\ variant = "async"
    /\ spi_msgs # <<>>
    /\ \E status \in {"ok", "err"} :
          stats' = IF status = "ok"
                   THEN [stats EXCEPT !.tx_packets = @ + 1,
                                      !.tx_bytes = @ + FrameLen]
                   ELSE Bump("tx_errors")
    /\ freed' = freed + 1
    /\ spi_msgs' = Tail(spi_msgs)
    /\ queue_stopped' = FALSE
    /\ UNCHANGED <<asyncrest, tx_pending, next_id>>

NextAsync ==
    \/ netdev_open
    \/ adin2111_start_xmit_async
    \/ adin2111_spi_complete

SpecAsync == InitAsync /\ [][NextAsync]_vars

(***************************************************************************)
(* The TX ring as the producer and the consumer see it                     *)
(***************************************************************************)
\* the frame start_xmit stored for ring index i: frames are numbered from 1
\* in the order they are accepted and the index starts at 0
StoredAt(i) == i + 1
\* a step stored a frame in slot k
SlotWritten(k) == tx_ring'[k] # tx_ring[k] /\ tx_ring'[k] # NULL
\* the worker still has the entry of slot k: it lies between tail and head
InFlight(k) ==
    \E i \in 0..(TX_RING_SIZE - 1) :
        i < U32Dist(tx_head, tx_tail) /\ Slot(tx_tail + i) = k

\* C31: no step stores a frame in a slot whose entry the worker has not
\* retired yet, and whenever the worker is at the top of its loop with
\* tail != head, the skb it reads from the entry at tail is the frame that
\* start_xmit stored for that index
C31_SlotHoldsStoredFrame ==
    [][/\ \A k \in 0..(TX_RING_SIZE - 1) :
             SlotWritten(k) => ~InFlight(k) /\ tx_ring[k] = NULL
       /\ (wpc = "loop" /\ tx_tail # tx_head) =>
             \A skb \in EntrySkb(tx_ring, tx_tail, w_skb) :
                 skb = StoredAt(tx_tail)]_vars

\* frames the worker has written to the device or dropped with tx_errors
K66Accounted == tx_fifo_cnt + stats.tx_errors

\* C32: every frame accepted into the TX ring is eventually written to the
\* device or dropped with tx_errors counted, when the worker is scheduled
\* fairly and the device reports enough TX space again and again
C32_AcceptedFrameResolved ==
    \A f \in 1..MaxK66Frames : (next_id > f) ~> (K66Accounted >= f)

\* C33: when a transmit path has stopped the queue of an open interface
\* (TX_SPACE too small, or a transport operation failed), the queue is
\* eventually woken again
C33_StoppedQueueWoken == (up /\ queue_stopped) ~> ~queue_stopped

C35_NoRecursiveLock ==
    \A c \in Contexts : ~(task # <<>> /\ task[c].pc = "mdio_call" /\ lock = c)

\* the positions at which a context is between mutex_lock and mutex_unlock
Holding(c) ==
    CASE c = "tx_worker" -> {"space", "write"}
      [] c = "rx_thread" -> {"status", "size", "alloc", "fifo"}
      [] c = "link_poll" -> {"read"}
      [] c = "phy" -> {"mdio"}

\* C36: the TX worker, the RX thread, the link poll and the MDIO accessors
\* hold priv->lock exactly between their mutex_lock and the mutex_unlock of
\* the path they take: a context that sleeps, has rescheduled itself, has
\* returned or is back at the top of its loop does not own the mutex, so
\* none of them can block the others for good
C36_LockReleasedAtRest ==
    variant \in {"lock_correct", "lock_link"} =>
        \A c \in {"tx_worker", "rx_thread", "link_poll", "phy"} :
            (lock = c) <=> (task[c].pc \in Holding(c))

\* the RX thread sleeps after the unlock of its not-ready path, the link
\* poll has taken the carrier down and returned, and adin2111_mdio_write
\* has the mutex
C36_Witness ==
    /\ variant = "lock_correct"
    /\ task["rx_thread"].pc = "sleep"
    /\ task["tx_worker"].pc = "idle"
    /\ task["link_poll"].pc = "idle"
    /\ carrier_ok = FALSE
    /\ task["phy"].pc = "mdio"
    /\ task["phy"].op = "write"
    /\ lock = "phy"

\* the states in which adin2111_transfer takes the next word as a command
CommandStates == {"SPI_STATE_IDLE", "SPI_STATE_CMD", "SPI_IDLE", "SPI_CMD"}

\* C37: when the last data word of a register transaction has been clocked,
\* the SPI state machine of the device model is back in a command state and
\* the transaction was decoded with its own command and address
C37_OwnCommandAndAddress ==
    [][(xfer.pos # 0 /\ xfer'.pos = 0) =>
          /\ spi_state' \in CommandStates
          /\ spi_addr' = xfer.addr
          /\ spi_cmd' = MasterBytes(xfer.op, xfer.addr, xfer.val)[1]]_vars

\* C38: between two SPI words the interrupt line of the device model is
\* asserted exactly when (int_status & int_mask) is non-zero
C38_IrqFollowsMaskedStatus ==
    variant = "qemu" => (irq <=> And32(int_status, int_mask) # 0)

\* no SPI transaction reaches adin2111_reg_write: the interrupt mask of
\* hw/net/adin2111.c keeps its reset value and the line stays low
MaskNeverWritten == variant = "qemu" => (int_mask = 0 /\ ~irq)

\* C39: in the async transmit path priv->tx_pending is the number of SPI
\* messages submitted and not yet completed, and the queue of an interface
\* that is up is stopped only while that number is at least
\* ADIN2111_TX_QUEUE_LIMIT
C39_PendingIsInFlight ==
    variant = "async" =>
        /\ tx_pending = Len(spi_msgs)
        /\ (up /\ queue_stopped) => Len(spi_msgs) >= ADIN2111_TX_QUEUE_LIMIT

\* frames in the kernel 6.6 ring
K66Count == U32Dist(tx_head, tx_tail)

\* C40: in the kernel 6.6 variant, wherever the 32-bit indices stand,
\* adin2111_start_xmit returns NETDEV_TX_BUSY exactly when the ring holds
\* all the frames it can hold (TX_RING_SIZE - 1), and after an enqueue it
\* stops the queue exactly when at most 8 of the TX_RING_SIZE slots are free
C40_RingChecksAtWrap ==
    [][/\ (variant = "kernel66tx" /\ xpc = "idle" /\ up /\ ~queue_stopped) =>
             ((xpc' = "idle" /\ queue_stopped')
                 <=> K66Count = K66_TX_RING_SIZE - 1)
       /\ (variant = "kernel66tx" /\ xpc = "stopcheck" /\ xpc' = "idle") =>
             (queue_stopped' <=> K66_TX_RING_SIZE - K66Count <= 8)]_vars

====
